---------------------------- MODULE Spec2Model ----------------------------
(***************************************************************************)
(* State-machine model of the speech-annotation pipeline:                  *)
(*   amostrar_discursos.py  eligibility filter, stratified sampler         *)
(*                          (per-party sample size, random.sample over     *)
(*                          each stratum), main, batched copy of the       *)
(*                          sample                                         *)
(*   batch_figuras.py       request builder, batch poll loop, output       *)
(*                          parser                                         *)
(*   src/limpar_textos.py   attachment cleaning of a text column, with     *)
(*                          batched commits                                *)
(*   src/orcamento.py       year-stratified sampler and cost estimate      *)
(*   utils.py               load_spans, apply_filters, highlight_spans     *)
(*   correlation id         custom_id from create_jsonl to load_spans      *)
(* Each subsystem has its own specification (SpecTam, SpecAmostra, ...);   *)
(* the variables of the other subsystems stay at their idle values.        *)
(***************************************************************************)
EXTENDS Integers, Sequences, FiniteSets, TLC

VARIABLES
    corr,                        \* correlation id round trip: codigo, custom_id built, codigo read back
    banco, banco0, sessao, limpar, \* limpar_coluna_sqlite: committed table, at the call, as the connection sees it, call
    fonte, destino, pendente, copia, \* copiar_amostra_com_join: Discursos, DiscursosAmostra, open transaction, call
    hl,                         \* highlight_spans: arguments, sorted spans, loop index, last, parts
    dfSpans, dfAntes, filtroDict, dfOut, pcAF, \* apply_filters: df, df at the call, f, result, position
    tabelaOrc, orc,             \* sample_discursos_by_year: the table, the call
    srcDb, jsonl, jsonl0, origemJ, cj, \* create_jsonl: SRC_DB, requests file, at start, line origins, run
    disco, disco0, mainA,       \* amostrar_discursos.main: the files, the files at start, the run
    textoIntegral, elegivel, pcFiltro, \* SQL_WORDS_FILTER: the text of a row, the WHERE result, position
    tamN, tamK, tamPc,          \* tamanho_amostra_por_partido: argument, result, position
    runs,                       \* amostrar_por_partido: two invocations, each with its
                                \* seed, mapping, generator state, loop index and result
    job,                        \* the remote batch: status and output file
    wd,                         \* batch_figuras.main / wait_and_download: position, last
                                \* retrieved batch object b, return value, messages
    artefatos,                  \* files written under OUT_DIR by the batch run
    arquivo,                    \* parse_output_to_parquet: the lines of output_jsonl
    linhasSaida,                \* the list `linhas` of rows built so far
    origem,                     \* for each row, the index of the line it came from
    pIdx,                       \* number of lines consumed
    pcParse,                    \* position: "read", "raised", "done"
    parquet,                    \* the rows written to parquet_path
    arquivoL,                   \* load_spans: the lines of resultados_batch.jsonl
    rowsL,                      \* the list `rows`
    origemL,                    \* for each row, the index of the line it came from
    lIdx,                       \* number of lines consumed
    pcLoad                      \* position: "read", "raised", "done"

varsTam == <<tamN, tamK, tamPc>>
varsAmostra == <<runs>>
varsBatch == <<job, wd, artefatos>>
varsParse == <<arquivo, linhasSaida, origem, pIdx, pcParse, parquet>>
varsLoad == <<arquivoL, rowsL, origemL, lIdx, pcLoad>>
varsFiltro == <<textoIntegral, elegivel, pcFiltro>>
varsMain == <<disco, disco0, mainA>>
varsJsonl == <<srcDb, jsonl, jsonl0, origemJ, cj>>
varsOrc == <<tabelaOrc, orc>>
varsAF == <<dfSpans, dfAntes, filtroDict, dfOut, pcAF>>
varsHl == <<hl>>
varsCopia == <<fonte, destino, pendente, copia>>
varsLimpar == <<banco, banco0, sessao, limpar>>
varsIds == <<corr>>
vars == <<corr,
          banco, banco0, sessao, limpar,
          fonte, destino, pendente, copia,
          hl,
          dfSpans, dfAntes, filtroDict, dfOut, pcAF,
          tabelaOrc, orc,
          srcDb, jsonl, jsonl0, origemJ, cj,
          disco, disco0, mainA,
          textoIntegral, elegivel, pcFiltro,
          tamN, tamK, tamPc, runs, job, wd, artefatos,
          arquivo, linhasSaida, origem, pIdx, pcParse, parquet,
          arquivoL, rowsL, origemL, lIdx, pcLoad>>

\* ------------------------------------------------------------------------
\* General helpers
\* ------------------------------------------------------------------------
Max(a, b) == IF a >= b THEN a ELSE b
Min(a, b) == IF a <= b THEN a ELSE b

RECURSIVE SumSeq(_)
SumSeq(s) == IF s = <<>> THEN 0 ELSE Head(s) + SumSeq(Tail(s))

Range(s) == {s[i] : i \in 1..Len(s)}

\* ------------------------------------------------------------------------
\* amostrar_discursos.py: sample-size rule
\* ------------------------------------------------------------------------
\* Largest stratum size the sample-size rule is applied to.
MaxN == 300

\* math.ceil(0.01 * n). The double nearest to 0.01 exceeds 1/100 by about
\* 2.1e-19, and for n a multiple of 100 the product rounds to n/100 exactly
\* (the excess is below half an ulp), so the float ceiling equals the integer
\* ceiling of n/100 (compared exhaustively against CPython for n < 2*10^6).
CeilCentesimoFloor(n) == n \div 100
CeilCentesimo(n) == (n + 99) \div 100

tamanho_amostra_por_partido(n) ==
    IF n >= 100 THEN Max(1, CeilCentesimo(n))
    ELSE IF n > 0 THEN 1 ELSE 0

IdleTam == tamN = 0 /\ tamK = 0 /\ tamPc = "idle"
IdleAmostra == runs = <<>>
IdleParse ==
    /\ arquivo = <<>> /\ linhasSaida = <<>> /\ origem = <<>>
    /\ pIdx = 0 /\ pcParse = "idle" /\ parquet = <<>>
IdleLoad ==
    /\ arquivoL = <<>> /\ rowsL = <<>> /\ origemL = <<>>
    /\ lIdx = 0 /\ pcLoad = "idle"
IdleBatch ==
    /\ job = [status |-> "none", output_file_id |-> 0]
    /\ wd = [pc |-> "idle", n |-> 0, b |-> [status |-> "none", output_file_id |-> 0],
             ret |-> "unset", msgs |-> <<>>]
    /\ artefatos = {}

IdleFiltro == textoIntegral = {} /\ elegivel = FALSE /\ pcFiltro = "idle"

Ausente == [existe |-> FALSE, tabelas |-> {}, linhas |-> 0]
IdleMain ==
    /\ disco = [discursos |-> Ausente, senadores |-> Ausente, dest |-> Ausente]
    /\ disco0 = disco
    /\ mainA = [pc |-> "idle", erro |-> "", ids |-> 0, msgs |-> <<>>]

IdleJsonl ==
    /\ srcDb = [existe |-> FALSE, tabela |-> FALSE, rows |-> <<>>]
    /\ jsonl = {} /\ jsonl0 = {} /\ origemJ = <<>>
    /\ cj = [pc |-> "idle", max_chars |-> {}, i |-> 0, n |-> 0, erro |-> "", msgs |-> <<>>]

IdleOrc ==
    /\ tabelaOrc = <<>>
    /\ orc = [pc |-> "idle", pct_per_year |-> [num |-> 0, den |-> 1],
              pct |-> [num |-> 0, den |-> 1], prompt |-> 0, prompt_cached |-> FALSE,
              estimate_output |-> {}, df |-> {}, anos |-> <<>>, amostra |-> {},
              custos |-> {}, erro |-> "", onde |-> ""]

IdleAF ==
    /\ dfSpans = <<>> /\ dfAntes = <<>> /\ dfOut = <<>> /\ pcAF = "idle"
    /\ filtroDict = [labels |-> {}, oradores |-> {}, partidos |-> {}, conf_min |-> {},
                     data_ini |-> {}, data_fim |-> {}, q |-> {}]

IdleHl ==
    hl = [pc |-> "idle", text |-> <<>>, spans |-> <<>>, sorted |-> <<>>, i |-> 0,
          last |-> 0, parts |-> <<>>]

IdleCopia ==
    /\ fonte = <<>> /\ destino = {} /\ pendente = <<>>
    /\ copia = [pc |-> "idle", ids |-> <<>>, i |-> 0, primeiro_batch |-> TRUE,
                em_transacao |-> FALSE, erro |-> ""]

IdleLimpar ==
    /\ banco = <<>> /\ banco0 = <<>> /\ sessao = <<>>
    /\ limpar = [pc |-> "idle"]

IdleIds == corr = [pc |-> "idle"]

InitTam ==
    /\ tamN \in 0..MaxN
    /\ tamK = 0
    /\ tamPc = "call"
    /\ IdleAmostra
    /\ IdleBatch
    /\ IdleParse
    /\ IdleLoad
    /\ IdleFiltro
    /\ IdleMain
    /\ IdleJsonl
    /\ IdleOrc
    /\ IdleAF
    /\ IdleHl
    /\ IdleCopia
    /\ IdleLimpar
    /\ IdleIds

TamCall ==
    /\ tamPc = "call"
    /\ tamK' = tamanho_amostra_por_partido(tamN)
    /\ tamPc' = "done"
    /\ UNCHANGED <<runs, tamN>>
    /\ UNCHANGED <<varsBatch, varsParse, varsLoad, varsFiltro, varsMain, varsJsonl, varsOrc, varsAF, varsHl, varsCopia, varsLimpar, varsIds>>

NextTam == TamCall

SpecTam == InitTam /\ [][NextTam]_vars

\* C1: for every stratum size n >= 0 the sample size is 0 when n = 0, exactly
\* 1 when 0 < n < 100, and the least integer k >= 1 with k >= n/100 when
\* n >= 100; sizes 0, 1, 50, 99, 100, 250 give 0, 1, 1, 1, 1, 3.
C1_TamanhoAmostra ==
    tamPc = "done" =>
        /\ tamN = 0 => tamK = 0
        /\ (0 < tamN /\ tamN < 100) => tamK = 1
        /\ tamN >= 100 => /\ tamK >= 1
                          /\ 100 * tamK >= tamN
                          /\ 100 * (tamK - 1) < tamN
        /\ tamN = 1 => tamK = 1
        /\ tamN = 50 => tamK = 1
        /\ tamN = 99 => tamK = 1
        /\ tamN = 100 => tamK = 1
        /\ tamN = 250 => tamK = 3

C1_Witness == tamPc = "done" /\ tamN = 250 /\ tamK = 3

\* ------------------------------------------------------------------------
\* Python's random module as used by amostrar_por_partido
\* ------------------------------------------------------------------------
\* The generator is the Mersenne Twister; getrandbits(k), k <= 32, is the top k
\* bits of the next 32-bit output word. MTWords(seed) holds the top 8 bits of
\* the first output words after random.seed(seed) (CPython 3.11), which is all
\* that populations of fewer than 256 records read. Stream 0 stands for the
\* state a process starts with when no seed is given.
MTWords(seed) ==
    CASE seed = 0 ->
        <<216, 98, 194, 227, 107, 10, 66, 247, 130, 124, 103, 235, 200, 212, 77,
          247, 122, 91, 149, 228, 232, 55, 129, 35, 72, 35, 193, 24, 158, 204,
          64, 252, 232, 136, 251, 180, 207, 154, 230, 37, 79, 25, 186, 18, 230,
          217, 175, 84, 120, 143, 25, 90, 111, 80, 156, 163, 233, 52, 247, 141,
          122, 113, 221, 133>>
      [] seed = 7 ->
        <<82, 242, 38, 101, 166, 12, 18, 210, 137, 24, 93, 149, 14, 232, 129,
          54, 9, 22, 111, 107, 17, 61, 23, 141, 108, 15, 211, 144, 31, 242, 57,
          161, 160, 149, 242, 15, 147, 149, 101, 12, 249, 56, 11, 142, 219, 34,
          74, 107, 36, 138, 30, 146, 78, 143, 208, 174, 46, 26, 148, 146, 163,
          48, 95, 24>>
      [] seed = 42 ->
        <<163, 28, 6, 189, 70, 62, 57, 35, 188, 26, 173, 189, 228, 139, 22, 151,
          108, 8, 7, 23, 55, 59, 129, 154, 6, 143, 50, 183, 166, 179, 139, 107,
          56, 114, 150, 71, 207, 222, 1, 194, 206, 40, 178, 108, 87, 71, 39, 55,
          245, 195, 86, 26, 23, 97, 24, 91, 216, 88, 154, 67, 206, 11, 186,
          117>>

\* Seeds a run may be given (--seed); the empty set is seed=None.
Seeds == {7, 42}
SeedOpts == {{}} \cup {{s} : s \in Seeds}
\* States the generator may be in when the process starts.
OsStates == {[seed |-> 0, pos |-> 0], [seed |-> 0, pos |-> 2]}

RECURSIVE Pow2(_)
Pow2(k) == IF k = 0 THEN 1 ELSE 2 * Pow2(k - 1)

RECURSIVE bit_length(_)
bit_length(n) == IF n = 0 THEN 0 ELSE 1 + bit_length(n \div 2)

\* random.seed(a) for an int a
random_seed(a) == [seed |-> a, pos |-> 0]

\* Random.getrandbits(k), 0 < k <= 8
getrandbits(rng, k) ==
    [val |-> MTWords(rng.seed)[rng.pos + 1] \div Pow2(8 - k),
     rng |-> [rng EXCEPT !.pos = @ + 1]]

\* Random._randbelow_with_getrandbits(n): redraw until the value is below n
RECURSIVE randbelow(_, _)
randbelow(rng, n) ==
    LET d == getrandbits(rng, bit_length(n))
    IN  IF d.val >= n THEN randbelow(d.rng, n) ELSE d

\* 4 ** ceil(log(3k, 4)): the least power of 4 that is >= 3k
RECURSIVE Pow4AtLeast(_, _)
Pow4AtLeast(p, m) == IF p >= m THEN p ELSE Pow4AtLeast(4 * p, m)

sample_setsize(k) == IF k > 5 THEN 21 + Pow4AtLeast(1, 3 * k) ELSE 21

\* Random.sample, small population: draw from a pool, moving the last live
\* element into the drawn slot.
RECURSIVE sample_pool(_, _, _, _, _, _)
sample_pool(rng, pool, n, k, i, result) ==
    IF i = k THEN [result |-> result, rng |-> rng]
    ELSE LET d == randbelow(rng, n - i)
             j == d.val + 1
         IN  sample_pool(d.rng, [pool EXCEPT ![j] = pool[n - i]], n, k, i + 1,
                         Append(result, pool[j]))

\* Random.sample, large population: draw indices, redrawing one already selected
RECURSIVE draw_unselected(_, _, _)
draw_unselected(rng, n, selected) ==
    LET d == randbelow(rng, n)
    IN  IF d.val \in selected THEN draw_unselected(d.rng, n, selected) ELSE d

RECURSIVE sample_set(_, _, _, _, _, _)
sample_set(rng, population, n, k, i, selected) ==
    IF i = k THEN [result |-> <<>>, rng |-> rng]
    ELSE LET d == draw_unselected(rng, n, selected)
             rest == sample_set(d.rng, population, n, k, i + 1, selected \cup {d.val})
         IN  [result |-> <<population[d.val + 1]>> \o rest.result, rng |-> rest.rng]

\* random.sample(population, k) with 0 <= k <= len(population)
random_sample(rng, population, k) ==
    LET n == Len(population)
    IN  IF n <= sample_setsize(k)
        THEN sample_pool(rng, population, n, k, 0, <<>>)
        ELSE sample_set(rng, population, n, k, 0, {})

\* ------------------------------------------------------------------------
\* amostrar_discursos.py: amostrar_por_partido
\* ------------------------------------------------------------------------
\* Number of strata (party keys) of an eligible mapping.
NumStrata == 3
\* Party keys in the order coletar_elegiveis first meets them; SEM_PARTIDO is
\* the key SQL_WORDS_FILTER gives a record with no party.
Partidos == <<"MDB", "PT", "SEM_PARTIDO", "PSDB", "PL">>
\* Stratum sizes tried (below and above the 100-record threshold).
Sizes == {0, 5, 150}

\* The list [(CodigoPronunciamento, CodigoParlamentar), ...] of one stratum
Linhas(base, n) == [i \in 1..n |-> <<base + i, 1>>]

Reverse(s) == [i \in 1..Len(s) |-> s[Len(s) + 1 - i]]

\* The two mappings hold the same strata: same keys, same list under each key
SameStrata(e1, e2) ==
    /\ {e1[j].partido : j \in 1..Len(e1)} = {e2[j].partido : j \in 1..Len(e2)}
    /\ \A j \in 1..Len(e1) : \A m \in 1..Len(e2) :
          e1[j].partido = e2[m].partido => e1[j].linhas = e2[m].linhas

\* [cod for cod, _ in escolhidos]
Cods(escolhidos) == [i \in 1..Len(escolhidos) |-> escolhidos[i][1]]

\* if seed is not None: random.seed(seed)
SeedUnseeded(seed, rng) == rng
SeedRun(seed, rng) ==
    IF seed # {} THEN random_seed(CHOOSE s \in seed : TRUE) ELSE rng

\* amostra_ids.extend(...)
ExtendReplace(amostra_ids, cods) == cods
Extend(amostra_ids, cods) == amostra_ids \o cods

InitAmostra ==
    /\ IdleTam
    /\ IdleBatch
    /\ IdleParse
    /\ IdleLoad
    /\ IdleFiltro
    /\ IdleMain
    /\ IdleJsonl
    /\ IdleOrc
    /\ IdleAF
    /\ IdleHl
    /\ IdleCopia
    /\ IdleLimpar
    /\ IdleIds
    /\ \E sz \in [1..NumStrata -> Sizes], shared \in BOOLEAN, rev \in BOOLEAN,
          seed1 \in SeedOpts, seed2 \in SeedOpts, os1 \in OsStates, os2 \in OsStates :
        LET base(j) == IF shared /\ j = 2 THEN 1000 ELSE 1000 * j
            e1 == [j \in 1..NumStrata |->
                      [partido |-> Partidos[j], linhas |-> Linhas(base(j), sz[j])]]
            mk(seed, e, os) ==
                [seed |-> seed, elegiveis |-> e, rng |-> os, i |-> 1,
                 amostra_ids |-> <<>>, seedCalls |-> 0, pc |-> "seed"]
        IN  runs = <<mk(seed1, e1, os1), mk(seed2, IF rev THEN Reverse(e1) ELSE e1, os2)>>

\* lines 88-90: seed the generator when a seed is given; the second run is a
\* later invocation of the program.
AmostraSeed(r) ==
    /\ runs # <<>>
    /\ runs[r].pc = "seed"
    /\ r = 2 => runs[1].pc = "done"
    /\ runs' = [runs EXCEPT
          ![r].rng = SeedRun(runs[r].seed, @),
          ![r].seedCalls = IF runs[r].seed # {} THEN @ + 1 ELSE @,
          ![r].pc = "loop"]
    /\ UNCHANGED <<varsTam, varsBatch, varsParse, varsLoad, varsFiltro, varsMain, varsJsonl, varsOrc, varsAF, varsHl, varsCopia, varsLimpar, varsIds>>

\* lines 91-97: one iteration of the loop over elegiveis.items()
AmostraEstrato(r) ==
    /\ runs # <<>>
    /\ runs[r].pc = "loop"
    /\ runs[r].i <= Len(runs[r].elegiveis)
    /\ LET linhas == runs[r].elegiveis[runs[r].i].linhas
           n == Len(linhas)
           k == tamanho_amostra_por_partido(n)
       IN  IF k = 0
           THEN runs' = [runs EXCEPT ![r].i = @ + 1]
           ELSE LET s == random_sample(runs[r].rng, linhas, Min(k, n))
                IN  runs' = [runs EXCEPT
                        ![r].i = @ + 1,
                        ![r].rng = s.rng,
                        ![r].amostra_ids = Extend(@, Cods(s.result))]
    /\ UNCHANGED <<varsTam, varsBatch, varsParse, varsLoad, varsFiltro, varsMain, varsJsonl, varsOrc, varsAF, varsHl, varsCopia, varsLimpar, varsIds>>

\* lines 98-99: the loop is over; return amostra_ids
AmostraReturn(r) ==
    /\ runs # <<>>
    /\ runs[r].pc = "loop"
    /\ runs[r].i > Len(runs[r].elegiveis)
    /\ runs' = [runs EXCEPT ![r].pc = "done"]
    /\ UNCHANGED <<varsTam, varsBatch, varsParse, varsLoad, varsFiltro, varsMain, varsJsonl, varsOrc, varsAF, varsHl, varsCopia, varsLimpar, varsIds>>

NextAmostra ==
    \E r \in 1..2 : AmostraSeed(r) \/ AmostraEstrato(r) \/ AmostraReturn(r)

SpecAmostra == InitAmostra /\ [][NextAmostra]_vars

\* Ids of the records of stratum j of a mapping
IdsOf(e, j) == {e[j].linhas[i][1] : i \in 1..Len(e[j].linhas)}

\* No record id occurs twice in the mapping, inside a stratum or across strata
DistinctIds(e) ==
    /\ \A j \in 1..Len(e) : Cardinality(IdsOf(e, j)) = Len(e[j].linhas)
    /\ \A j, m \in 1..Len(e) : j # m => IdsOf(e, j) \cap IdsOf(e, m) = {}

\* C2: over a mapping of pairwise distinct ids the returned list holds, for each
\* stratum of size n, exactly min(k, n) distinct ids of that stratum and nothing
\* else: a non-empty stratum gives at least one id, an empty one none, no id is
\* returned twice and the length is the sum of the per-stratum sizes.
C2_AmostraPorEstrato ==
    \A r \in DOMAIN runs :
        (runs[r].pc = "done" /\ DistinctIds(runs[r].elegiveis)) =>
            LET e == runs[r].elegiveis
                ids == runs[r].amostra_ids
                kOf(j) == Min(tamanho_amostra_por_partido(Len(e[j].linhas)),
                              Len(e[j].linhas))
            IN  /\ Cardinality(Range(ids)) = Len(ids)
                /\ Range(ids) \subseteq UNION {IdsOf(e, j) : j \in 1..Len(e)}
                /\ \A j \in 1..Len(e) :
                      /\ Cardinality(Range(ids) \cap IdsOf(e, j)) = kOf(j)
                      /\ Len(e[j].linhas) > 0 => Range(ids) \cap IdsOf(e, j) # {}
                      /\ Len(e[j].linhas) = 0 => Range(ids) \cap IdsOf(e, j) = {}
                /\ Len(ids) = SumSeq([j \in 1..Len(e) |-> kOf(j)])

\* Strata of sizes 5, 150, 0 under seed 7 give 1, 2 and 0 ids.
C2_Witness ==
    /\ runs # <<>>
    /\ runs[1].pc = "done"
    /\ runs[1].seed = {7}
    /\ DistinctIds(runs[1].elegiveis)
    /\ Len(runs[1].elegiveis[1].linhas) = 5
    /\ Len(runs[1].elegiveis[2].linhas) = 150
    /\ Len(runs[1].elegiveis[3].linhas) = 0
    /\ Cardinality(Range(runs[1].amostra_ids) \cap IdsOf(runs[1].elegiveis, 1)) = 1
    /\ Cardinality(Range(runs[1].amostra_ids) \cap IdsOf(runs[1].elegiveis, 2)) = 2
    /\ Len(runs[1].amostra_ids) = 3

\* C3: two runs with the same seed over the same mapping, strata and records in
\* the same order, return identical selections; a seeded run seeds the
\* generator exactly once, before its first stratum.
C3_SeedReproduz ==
    runs # <<>> =>
        /\ (/\ runs[1].pc = "done" /\ runs[2].pc = "done"
            /\ runs[1].seed # {} /\ runs[1].seed = runs[2].seed
            /\ runs[1].elegiveis = runs[2].elegiveis)
           => /\ runs[1].amostra_ids = runs[2].amostra_ids
              /\ Range(runs[1].amostra_ids) = Range(runs[2].amostra_ids)
        /\ \A r \in 1..2 :
              /\ (runs[r].pc # "seed" /\ runs[r].seed # {}) => runs[r].seedCalls = 1
              /\ runs[r].pc = "seed" => (runs[r].i = 1 /\ runs[r].seedCalls = 0)

C3_Witness ==
    /\ runs # <<>>
    /\ runs[1].pc = "done" /\ runs[2].pc = "done"
    /\ runs[1].seed = {7} /\ runs[2].seed = {7}
    /\ runs[1].elegiveis = runs[2].elegiveis
    /\ Len(runs[1].amostra_ids) = 3
    /\ runs[1].amostra_ids = runs[2].amostra_ids

\* C4: with a seed, the selection does not depend on the order in which the
\* keys were inserted into the mapping: same seed and same strata give the same
\* set of selected ids.
C4_OrdemDosEstratos ==
    runs # <<>> =>
        ((/\ runs[1].pc = "done" /\ runs[2].pc = "done"
          /\ runs[1].seed # {} /\ runs[1].seed = runs[2].seed
          /\ SameStrata(runs[1].elegiveis, runs[2].elegiveis))
         => Range(runs[1].amostra_ids) = Range(runs[2].amostra_ids))

\* ------------------------------------------------------------------------
\* batch_figuras.py: main, create_and_run_batch, wait_and_download
\* ------------------------------------------------------------------------
\* Statuses of a batch of the remote service. A batch is created validating;
\* it then fails validation or runs, and a running batch finalizes and
\* completes, expires, or is cancelled (through cancelling).
Statuses == {"validating", "failed", "in_progress", "finalizing", "completed",
             "expired", "cancelling", "cancelled"}

\* Statuses on which the batch never changes again.
Terminal == {"completed", "failed", "expired", "cancelled"}

\* The statuses on which the poll loop breaks (line 168)
ExitStatuses == {"completed", "failed", "expired", "cancelled", "cancelling", "finalizing"}

\* Status changes of the remote batch
JobSuccessors(st) ==
    CASE st = "validating"  -> {"failed", "in_progress"}
      [] st = "in_progress" -> {"finalizing", "expired", "cancelling"}
      [] st = "finalizing"  -> {"completed"}
      [] st = "cancelling"  -> {"cancelled"}
      [] OTHER              -> {}

\* Whether a batch entering a status may carry an output file (id 1; 0 is
\* None): a completed batch has one unless every request failed; an expired or
\* cancelled batch has one when some requests had finished.
OutputIds(st) == IF st \in {"completed", "expired", "cancelled"} THEN {0, 1} ELSE {0}

\* Largest number of requests create_jsonl writes.
MaxPedidos == 2

InitBatch ==
    /\ IdleTam
    /\ IdleAmostra
    /\ IdleParse
    /\ IdleLoad
    /\ IdleFiltro
    /\ IdleMain
    /\ IdleJsonl
    /\ IdleOrc
    /\ IdleAF
    /\ IdleHl
    /\ IdleCopia
    /\ IdleLimpar
    /\ IdleIds
    /\ job = [status |-> "none", output_file_id |-> 0]
    /\ \E n \in 0..MaxPedidos :
          wd = [pc |-> "start", n |-> n, b |-> [status |-> "none", output_file_id |-> 0],
                ret |-> "unset", msgs |-> <<>>]
    /\ artefatos = {}

\* main lines 244-249: create_jsonl writes the request file and returns the
\* number of requests; with none, main gives notice and returns
MainCreateJsonl ==
    /\ wd.pc = "start"
    /\ artefatos' = artefatos \cup {"requests.jsonl"}
    /\ wd' = IF wd.n = 0
             THEN [wd EXCEPT !.pc = "done", !.msgs = Append(@, "AVISO JSONL vazio")]
             ELSE [wd EXCEPT !.pc = "create", !.msgs = Append(@, "OK JSONL criado")]
    /\ UNCHANGED <<job, varsTam, varsAmostra, varsParse, varsLoad, varsFiltro, varsMain, varsJsonl, varsOrc, varsAF, varsHl, varsCopia, varsLimpar, varsIds>>

\* main line 253, create_and_run_batch: upload the request file, create the batch
CreateAndRunBatch ==
    /\ wd.pc = "create"
    /\ job' = [status |-> "validating", output_file_id |-> 0]
    /\ wd' = [wd EXCEPT !.pc = "poll", !.msgs = Append(@, "OK batch id")]
    /\ UNCHANGED <<artefatos, varsTam, varsAmostra, varsParse, varsLoad, varsFiltro, varsMain, varsJsonl, varsOrc, varsAF, varsHl, varsCopia, varsLimpar, varsIds>>

\* The remote service moves the batch on
JobAdvance ==
    /\ job.status \in Statuses
    /\ \E st \in JobSuccessors(job.status) : \E f \in OutputIds(st) :
          job' = [status |-> st, output_file_id |-> f]
    /\ UNCHANGED <<wd, artefatos, varsTam, varsAmostra, varsParse, varsLoad, varsFiltro, varsMain, varsJsonl, varsOrc, varsAF, varsHl, varsCopia, varsLimpar, varsIds>>

\* A poll that leaves the loop whatever the status is.
WaitPollSemTeste ==
    /\ wd.pc = "poll"
    /\ wd' = [wd EXCEPT !.b = job, !.pc = "after"]
    /\ UNCHANGED <<job, artefatos, varsTam, varsAmostra, varsParse, varsLoad, varsFiltro, varsMain, varsJsonl, varsOrc, varsAF, varsHl, varsCopia, varsLimpar, varsIds>>

\* lines 166-169: retrieve the batch, print its status, break on an exit status
WaitPoll ==
    /\ wd.pc = "poll"
    /\ wd' = [wd EXCEPT !.b = job,
                        !.pc = IF job.status \in ExitStatuses THEN "after" ELSE "sleep"]
    /\ UNCHANGED <<job, artefatos, varsTam, varsAmostra, varsParse, varsLoad, varsFiltro, varsMain, varsJsonl, varsOrc, varsAF, varsHl, varsCopia, varsLimpar, varsIds>>

\* line 170: time.sleep(5)
WaitSleep ==
    /\ wd.pc = "sleep"
    /\ wd' = [wd EXCEPT !.pc = "poll"]
    /\ UNCHANGED <<job, artefatos, varsTam, varsAmostra, varsParse, varsLoad, varsFiltro, varsMain, varsJsonl, varsOrc, varsAF, varsHl, varsCopia, varsLimpar, varsIds>>

\* lines 172-178: the retrieved batch has an output file: download, save, return the path
WaitDownload ==
    /\ wd.pc = "after"
    /\ wd.b.output_file_id # 0
    /\ artefatos' = artefatos \cup {"output.jsonl"}
    /\ wd' = [wd EXCEPT !.pc = "returned", !.ret = "out_path",
                        !.msgs = Append(@, "OK output salvo")]
    /\ UNCHANGED <<job, varsTam, varsAmostra, varsParse, varsLoad, varsFiltro, varsMain, varsJsonl, varsOrc, varsAF, varsHl, varsCopia, varsLimpar, varsIds>>

\* lines 180-181: no output file: notice, return None
WaitNoOutput ==
    /\ wd.pc = "after"
    /\ wd.b.output_file_id = 0
    /\ wd' = [wd EXCEPT !.pc = "returned", !.ret = "None",
                        !.msgs = Append(@, "AVISO sem arquivo de saida")]
    /\ UNCHANGED <<job, artefatos, varsTam, varsAmostra, varsParse, varsLoad, varsFiltro, varsMain, varsJsonl, varsOrc, varsAF, varsHl, varsCopia, varsLimpar, varsIds>>

\* main lines 256-258: parse the downloaded output into the spans parquet
MainParse ==
    /\ wd.pc = "returned"
    /\ wd.ret = "out_path"
    /\ artefatos' = artefatos \cup {"spans.parquet"}
    /\ wd' = [wd EXCEPT !.pc = "done", !.msgs = Append(@, "OK parquet salvo")]
    /\ UNCHANGED <<job, varsTam, varsAmostra, varsParse, varsLoad, varsFiltro, varsMain, varsJsonl, varsOrc, varsAF, varsHl, varsCopia, varsLimpar, varsIds>>

\* main line 256: out_jsonl is None, main ends
MainEnd ==
    /\ wd.pc = "returned"
    /\ wd.ret = "None"
    /\ wd' = [wd EXCEPT !.pc = "done"]
    /\ UNCHANGED <<job, artefatos, varsTam, varsAmostra, varsParse, varsLoad, varsFiltro, varsMain, varsJsonl, varsOrc, varsAF, varsHl, varsCopia, varsLimpar, varsIds>>

NextBatch ==
    \/ MainCreateJsonl
    \/ CreateAndRunBatch
    \/ JobAdvance
    \/ WaitPoll
    \/ WaitSleep
    \/ WaitDownload
    \/ WaitNoOutput
    \/ MainParse
    \/ MainEnd

SpecBatch == InitBatch /\ [][NextBatch]_vars

\* The batch run under the scheduling the code relies on: every status check
\* returns, every sleep ends, and the steps after the loop are taken; nothing
\* obliges the remote batch to change its status.
SpecBatchFair ==
    /\ SpecBatch
    /\ WF_vars(WaitPoll)
    /\ WF_vars(WaitSleep)
    /\ WF_vars(WaitDownload \/ WaitNoOutput)

\* C19: wait_and_download leaves its loop, and returns, only after a status
\* of the exit set was retrieved, and sleeps only after another status was;
\* once the batch is in a status of the exit set while the call is waiting,
\* the call eventually returns; it downloads at most once; and as long as the
\* batch stays outside the exit set the call does not return.
C19_EsperaTermina ==
    /\ [](/\ (wd.pc \in {"after", "returned"} \/ wd.ret # "unset") =>
                 wd.b.status \in ExitStatuses
          /\ wd.pc = "sleep" => wd.b.status \in Statuses \ ExitStatuses
          /\ Cardinality({i \in 1..Len(wd.msgs) : wd.msgs[i] = "OK output salvo"}) <= 1)
    /\ (wd.pc \in {"poll", "sleep"} /\ job.status \in ExitStatuses) ~> (wd.pc = "returned")
    /\ ([](job.status \notin ExitStatuses) =>
            [](wd.pc \notin {"after", "returned"} /\ wd.ret = "unset"))

\* The call retrieved a status of the exit set, downloaded the output and
\* returned.
C19_Witness ==
    /\ wd.pc = "returned"
    /\ wd.ret = "out_path"
    /\ wd.b.status \in ExitStatuses
    /\ "output.jsonl" \in artefatos

\* C7: the poll loop is left only on a terminal status (completed, failed,
\* expired, cancelled); on any other status the caller sleeps and polls again.
C7_SoSaiEmTerminal ==
    /\ (wd.pc \in {"after", "returned"} \/ (wd.pc = "done" /\ wd.ret # "unset"))
          => wd.b.status \in Terminal
    /\ wd.pc = "sleep" => wd.b.status \in Statuses \ Terminal

\* What a run reports of its job: the value wait_and_download returned and the
\* messages printed after the batch was created
Outcome(w) == [ret |-> w.ret, msgs |-> SubSeq(w.msgs, 3, Len(w.msgs))]

\* C8: an output file is fetched and returned only for a job that completed
\* with an output file, main writes the spans artefact only for a completed job,
\* and what is reported for a job that did not complete is never what is
\* reported for a completed job.
C8_NaoConcluidoDistinto ==
    /\ wd.ret = "out_path" => (wd.b.status = "completed" /\ wd.b.output_file_id # 0)
    /\ "spans.parquet" \in artefatos => wd.b.status = "completed"
    /\ (wd.pc = "done" /\ wd.ret # "unset" /\ wd.b.status # "completed") =>
          Outcome(wd) \notin
              {[ret |-> "out_path", msgs |-> <<"OK output salvo", "OK parquet salvo">>],
               [ret |-> "None", msgs |-> <<"AVISO sem arquivo de saida">>]}

\* ------------------------------------------------------------------------
\* batch_figuras.py: parse_output_to_parquet
\* ------------------------------------------------------------------------
\* Texts are sequences of characters. A Python value that may be None is a set:
\* {} is None, {v} is v.
\* The speech texts create_jsonl embedded in the requests, by correlation id.
TextoDe(custom_id) ==
    IF custom_id = {"disc-1"} THEN <<"a", "b", "c", "d">> ELSE <<"x", "y", "z">>
IdsConhecidos == {{"disc-1"}, {"disc-2"}}

\* The keys of a span of the FigurasLinguagem schema (structured_outputs.py)
SpanKeys == {"label", "start_char", "end_char", "text", "rationale", "cues", "confidence"}

MkSpan(label, s, e, t) ==
    [label |-> label, start_char |-> s, end_char |-> e, text |-> t,
     rationale |-> "porque", cues |-> <<>>, confidence |-> 90]

\* {**f, **g}: the keys of both, g winning
Merge(f, g) ==
    [key \in DOMAIN f \cup DOMAIN g |-> IF key \in DOMAIN g THEN g[key] ELSE f[key]]

\* Elements a "spans" list may hold: objects (dict = TRUE) and other JSON values
ItemOk1 == [dict |-> TRUE, v |-> MkSpan("metafora", 0, 2, <<"a", "b">>)]
ItemOk2 == [dict |-> TRUE, v |-> MkSpan("ironia", 2, 4, <<"c", "d">>)]
\* the excerpt is not the slice at the offsets
ItemMismatch == [dict |-> TRUE, v |-> MkSpan("anafora", 1, 3, <<"a", "b">>)]
\* start_char > end_char
ItemInverted == [dict |-> TRUE, v |-> MkSpan("ironia", 3, 1, <<>>)]
\* end_char beyond the text
ItemBeyond == [dict |-> TRUE, v |-> MkSpan("ironia", 2, 9, <<"c", "d">>)]
\* an object with a key the schema does not allow
ItemExtra == [dict |-> TRUE,
              v |-> Merge(MkSpan("metafora", 0, 2, <<"a", "b">>), [custom_id |-> {"disc-9"}])]
\* a JSON string where an object is expected
ItemStr == [dict |-> FALSE, v |-> [str |-> "metafora"]]

SpanLists ==
    {<<>>, <<ItemOk1>>, <<ItemOk2>>, <<ItemMismatch>>, <<ItemInverted>>, <<ItemBeyond>>,
     <<ItemExtra>>, <<ItemStr>>, <<ItemOk1, ItemOk2>>, <<ItemOk2, ItemOk1>>,
     <<ItemOk1, ItemOk1>>, <<ItemOk1, ItemStr>>, <<ItemStr, ItemOk1>>, <<ItemOk1, ItemExtra>>}

\* One line of the output file, by what json.loads and the lookups of lines
\* 194-204 find in it:
\*   json      "malformed" (not JSON), "list" (JSON, not an object), "dict"
\*   custom_id the value of obj.get("custom_id")
\*   response  "absent", "null", "str" (a string), "dict"
\*   path      where resp["output"][0]["content"][0] stops: "no_output",
\*             "empty_output", "no_content", or "ok"
\*   block     the first content block: "str" or "dict"
\*   ctype     the block's "type"
\*   payload   the block's "json": "absent", "list", "dict"
\*   spans     the payload's "spans": absent, null, or a list of items
\*   text      the block's "text"
LineBase ==
    [json |-> "dict", custom_id |-> {"disc-1"}, response |-> "dict", path |-> "ok",
     block |-> "dict", ctype |-> {"output_json"}, payload |-> "dict",
     spans |-> [kind |-> "list", items |-> <<>>], text |-> {}]

LineSet ==
    {[LineBase EXCEPT !.json = j] : j \in {"malformed", "list"}}
    \cup {[LineBase EXCEPT !.response = r] : r \in {"absent", "null", "str"}}
    \cup {[LineBase EXCEPT !.path = q] : q \in {"no_output", "empty_output", "no_content"}}
    \cup {[LineBase EXCEPT !.block = "str"]}
    \cup {[LineBase EXCEPT !.payload = y] : y \in {"absent", "list"}}
    \cup {[LineBase EXCEPT !.spans = [kind |-> k, items |-> <<>>]] : k \in {"absent", "null"}}
    \cup {[LineBase EXCEPT !.ctype = {"output_text"}, !.text = t] : t \in {{}, {<<"o", "i">>}}}
    \cup {[LineBase EXCEPT !.ctype = c] : c \in {{}, {"refusal"}}}
    \cup {[LineBase EXCEPT !.spans = [kind |-> "list", items |-> it]] : it \in SpanLists}
    \cup {[LineBase EXCEPT !.custom_id = c, !.spans = [kind |-> "list", items |-> <<ItemOk1>>]] :
             c \in {{}, {"disc-2"}}}

\* Most lines an output file holds.
MaxLines == 2

\* The exception of  resp["output"][0]["content"][0]  (line 199), "" when none;
\* resp is {} when "response" is absent or null (line 196)
BlockError(l) ==
    CASE l.response \in {"absent", "null"} -> "KeyError 'output'"
      [] l.response = "str"                -> "TypeError string indices must be integers"
      [] l.path = "no_output"              -> "KeyError 'output'"
      [] l.path = "empty_output"           -> "IndexError list index out of range"
      [] l.path = "no_content"             -> "KeyError 'content'"
      [] OTHER                             -> ""

\* The block `output` as stored in a raw row
Block(l) == [type |-> l.ctype, json |-> l.payload, spans |-> l.spans, text |-> l.text]

\* lines 224-228: the row of the except branch
ErrorRow(custom_id, e, obj) ==
    [custom_id |-> custom_id, parse_error |-> e, raw_response |-> obj]

\* lines 207-210: {"custom_id": custom_id, **sp}
SpanRowSemId(custom_id, sp) == sp
SpanRow(custom_id, sp) == Merge([custom_id |-> custom_id], sp)

\* lines 206-210 and their exception: a row per item, until an item that is
\* no mapping raises TypeError, which adds the row of the except branch
RECURSIVE SpanRows(_, _, _)
SpanRows(custom_id, items, obj) ==
    IF items = <<>> THEN <<>>
    ELSE IF ~Head(items).dict
         THEN <<ErrorRow(custom_id, "TypeError argument after ** must be a mapping", obj)>>
         ELSE <<SpanRow(custom_id, Head(items).v)>> \o SpanRows(custom_id, Tail(items), obj)

\* lines 198-228: the rows one decoded object adds to `linhas`
RecordRows(l) ==
    LET custom_id == l.custom_id
    IN  IF BlockError(l) # "" THEN <<ErrorRow(custom_id, BlockError(l), l)>>
        ELSE IF l.block # "dict"
        THEN <<ErrorRow(custom_id, "AttributeError 'str' object has no attribute 'get'", l)>>
        ELSE IF l.ctype = {"output_json"}
        THEN CASE l.payload = "absent" -> <<ErrorRow(custom_id, "KeyError 'json'", l)>>
               [] l.payload = "list" ->
                    <<ErrorRow(custom_id, "AttributeError 'list' object has no attribute 'get'", l)>>
               [] l.spans.kind = "absent" -> <<>>
               [] l.spans.kind = "null" ->
                    <<ErrorRow(custom_id, "TypeError 'NoneType' object is not iterable", l)>>
               [] OTHER -> SpanRows(custom_id, l.spans.items, l)
        ELSE IF l.ctype = {"output_text"}
        THEN <<[custom_id |-> custom_id,
                text |-> IF l.text = {} THEN <<>> ELSE CHOOSE t \in l.text : TRUE]>>
        ELSE <<[custom_id |-> custom_id, raw |-> Block(l)]>>

\* lines 194-195, outside the try: json.loads raises on a line that is not
\* JSON, obj.get raises on a JSON value that is no object
RaisesOutsideTry(l) == l.json # "dict"

InitParse ==
    /\ IdleTam
    /\ IdleAmostra
    /\ IdleBatch
    /\ IdleLoad
    /\ IdleFiltro
    /\ IdleMain
    /\ IdleJsonl
    /\ IdleOrc
    /\ IdleAF
    /\ IdleHl
    /\ IdleCopia
    /\ IdleLimpar
    /\ IdleIds
    /\ \E len \in 0..MaxLines : arquivo \in [1..len -> LineSet]
    /\ linhasSaida = <<>>
    /\ origem = <<>>
    /\ pIdx = 0
    /\ pcParse = "read"
    /\ parquet = <<>>

\* lines 193-228: one iteration of  for line in f
ParseLine ==
    /\ pcParse = "read"
    /\ pIdx < Len(arquivo)
    /\ LET l == arquivo[pIdx + 1]
       IN  IF RaisesOutsideTry(l)
           THEN /\ pcParse' = "raised"
                /\ UNCHANGED <<linhasSaida, origem, pIdx>>
           ELSE /\ linhasSaida' = linhasSaida \o RecordRows(l)
                /\ origem' = origem \o [k \in 1..Len(RecordRows(l)) |-> pIdx + 1]
                /\ pIdx' = pIdx + 1
                /\ UNCHANGED pcParse
    /\ UNCHANGED <<arquivo, parquet, varsTam, varsAmostra, varsBatch, varsLoad, varsFiltro, varsMain, varsJsonl, varsOrc, varsAF, varsHl, varsCopia, varsLimpar, varsIds>>

\* lines 230-232: the file is read; write the rows to parquet_path
ParseWrite ==
    /\ pcParse = "read"
    /\ pIdx = Len(arquivo)
    /\ parquet' = linhasSaida
    /\ pcParse' = "done"
    /\ UNCHANGED <<arquivo, linhasSaida, origem, pIdx, varsTam, varsAmostra, varsBatch, varsLoad, varsFiltro, varsMain, varsJsonl, varsOrc, varsAF, varsHl, varsCopia, varsLimpar, varsIds>>

NextParse == ParseLine \/ ParseWrite

SpecParse == InitParse /\ [][NextParse]_vars

\* The rows that came from line i
RowsOf(i) ==
    LET ks == {k \in 1..Len(origem) : origem[k] = i}
    IN  IF ks = {} THEN <<>>
        ELSE SubSeq(linhasSaida,
                    CHOOSE a \in ks : \A b \in ks : a <= b,
                    CHOOSE a \in ks : \A b \in ks : a >= b)

\* A line whose decoding fails: not JSON, not an object, the expected keys
\* missing, or a payload of another shape than {"spans": [objects]}
DecodeFails(l) ==
    \/ l.json # "dict"
    \/ BlockError(l) # ""
    \/ l.block # "dict"
    \/ /\ l.ctype = {"output_json"}
       /\ \/ l.payload # "dict"
          \/ l.spans.kind = "null"
          \/ \E k \in 1..Len(l.spans.items) : ~l.spans.items[k].dict

\* C5: every line whose decoding fails yields exactly one row recording the
\* correlation id, the error and the raw record, and the parser goes on to the
\* remaining lines: no failing line aborts the run or vanishes without a row.
C5_FalhaViraLinha ==
    /\ pcParse # "raised"
    /\ \A i \in 1..pIdx :
          DecodeFails(arquivo[i]) =>
              LET errs == {k \in 1..Len(RowsOf(i)) : "parse_error" \in DOMAIN RowsOf(i)[k]}
              IN  /\ Cardinality(errs) = 1
                  /\ \A k \in errs :
                        /\ DOMAIN RowsOf(i)[k] = {"custom_id", "parse_error", "raw_response"}
                        /\ RowsOf(i)[k].custom_id = arquivo[i].custom_id
                        /\ RowsOf(i)[k].raw_response = arquivo[i]
    /\ pcParse = "done" => pIdx = Len(arquivo)

\* A record whose first content block is a structured payload {"spans": [...]}
\* of spans that follow the schema
WellFormedRecord(l) ==
    /\ l.json = "dict" /\ BlockError(l) = "" /\ l.block = "dict"
    /\ l.ctype = {"output_json"} /\ l.payload = "dict" /\ l.spans.kind = "list"
    /\ \A k \in 1..Len(l.spans.items) :
          l.spans.items[k].dict /\ DOMAIN l.spans.items[k].v = SpanKeys

\* C9: a well-formed structured record with m spans yields exactly m rows, in
\* span order, each with every field of its span unchanged and custom_id equal
\* to the record's correlation id; the rows written are the rows built.
C9_UmaLinhaPorSpan ==
    /\ \A i \in 1..pIdx :
          WellFormedRecord(arquivo[i]) =>
              LET items == arquivo[i].spans.items
                  rs == RowsOf(i)
              IN  /\ Len(rs) = Len(items)
                  /\ \A k \in 1..Len(rs) :
                        /\ DOMAIN rs[k] = SpanKeys \cup {"custom_id"}
                        /\ \A key \in SpanKeys : rs[k][key] = items[k].v[key]
                        /\ rs[k].custom_id = arquivo[i].custom_id
    /\ pcParse = "done" => parquet = linhasSaida

C9_Witness ==
    /\ pcParse = "done"
    /\ Len(arquivo) = 2
    /\ arquivo[2].spans.items = <<ItemOk2, ItemOk1>>
    /\ WellFormedRecord(arquivo[1]) /\ WellFormedRecord(arquivo[2])
    /\ arquivo[1].custom_id = {"disc-2"}
    /\ Len(parquet) = 3
    /\ parquet[1].custom_id = {"disc-2"}
    /\ parquet[2].label = "ironia" /\ parquet[3].label = "metafora"

\* The kind of a row of `linhas`, by its keys.
KindOfRow(row) ==
    IF "parse_error" \in DOMAIN row THEN "parse_error"
    ELSE IF "raw" \in DOMAIN row THEN "raw"
    ELSE IF "label" \in DOMAIN row THEN "span"
    ELSE "text"

\* C23: the rows of every record read are of one kind: span rows only, or
\* exactly one raw-text row, or exactly one raw row, or exactly one
\* parse_error row; no record has both span rows and a parse_error row.
C23_UmTipoPorRegistro ==
    \A i \in 1..pIdx :
        LET rs == RowsOf(i)
        IN  /\ \A j, k \in 1..Len(rs) : KindOfRow(rs[j]) = KindOfRow(rs[k])
            /\ (\E k \in 1..Len(rs) : KindOfRow(rs[k]) # "span") => Len(rs) = 1

\* text[start:end] for 0 <= start, 0 <= end
Slice(text, start, end) ==
    SubSeq(text, start + 1, IF end <= Len(text) THEN end ELSE Len(text))

\* The span validity check of the specification
ValidSpan(row, text) ==
    /\ 0 <= row.start_char /\ row.start_char <= row.end_char
    /\ row.end_char <= Len(text)
    /\ row.text = Slice(text, row.start_char, row.end_char)

\* C6: a span with start_char > end_char, an offset outside the text, or an
\* excerpt that is not the slice at its offsets is recorded as a flagged
\* validation failure, never accepted as a plain annotation row.
C6_SpanInvalidoSinalizado ==
    \A k \in 1..Len(linhasSaida) :
        LET row == linhasSaida[k]
        IN  (/\ "start_char" \in DOMAIN row
             /\ row.custom_id \in IdsConhecidos
             /\ ~ValidSpan(row, TextoDe(row.custom_id)))
            => \E key \in DOMAIN row : key \in {"parse_error", "validation_error", "valid"}

\* ------------------------------------------------------------------------
\* utils.py: load_spans (the branch that parses resultados_batch.jsonl)
\* ------------------------------------------------------------------------
Digits == <<"0", "1", "2", "3", "4", "5", "6", "7", "8", "9">>
IsDigit(c) == \E d \in 1..10 : Digits[d] = c
DigitVal(c) == (CHOOSE d \in 1..10 : Digits[d] = c) - 1

\* str.strip() of the blanks at both ends
RECURSIVE Strip(_)
Strip(s) ==
    IF s = <<>> THEN s
    ELSE IF Head(s) = " " THEN Strip(Tail(s))
    ELSE IF s[Len(s)] = " " THEN Strip(SubSeq(s, 1, Len(s) - 1))
    ELSE s

RECURSIVE DecimalValue(_, _)
DecimalValue(s, acc) ==
    IF s = <<>> THEN acc ELSE DecimalValue(Tail(s), 10 * acc + DigitVal(Head(s)))

\* int(s) for a str s: blanks stripped, an optional sign, then one or more
\* decimal digits; {} when int raises ValueError, {n} otherwise
IntOfStr(s) ==
    LET t == Strip(s)
        neg == t # <<>> /\ Head(t) = "-"
        u == IF t # <<>> /\ Head(t) \in {"+", "-"} THEN Tail(t) ELSE t
    IN  IF u # <<>> /\ \A k \in 1..Len(u) : IsDigit(u[k])
        THEN {IF neg THEN 0 - DecimalValue(u, 0) ELSE DecimalValue(u, 0)}
        ELSE {}

\* custom_id.split("-")[-1]: what follows the last "-", the whole string if none
RECURSIVE LastSegment(_)
LastSegment(s) ==
    IF \E k \in 1..Len(s) : s[k] = "-"
    THEN LastSegment(SubSeq(s, (CHOOSE k \in 1..Len(s) : s[k] = "-") + 1, Len(s)))
    ELSE s

\* The value of obj.get("custom_id", ""): kind "str" with its characters,
\* "absent" (the default ""), "null" (None) or "int" (a JSON number)
CidStr(chars) == [kind |-> "str", s |-> chars]
CidPrefixes == {<<>>, <<"d", "i", "s", "c">>}
CidSeps == {<<>>, <<"-">>, <<"-", "-">>}
CidTails == {<<>>, <<"7">>, <<"0", "7">>, <<"x">>, <<"+", "7">>, <<" ", "7">>}
CidSet ==
    {CidStr(a \o b \o c) : a \in CidPrefixes, b \in CidSeps, c \in CidTails}
    \cup {[kind |-> k, s |-> <<>>] : k \in {"absent", "null", "int"}}

\* lines 32-37: codigo. raised is TRUE when an exception leaves the try (never:
\* the handler catches Exception); val is {} for None.
CodigoDeSemTry(cid) ==
    IF cid.kind \in {"null", "int"} THEN [raised |-> TRUE, val |-> {}]
    ELSE LET v == IntOfStr(LastSegment(cid.s))
         IN  [raised |-> v = {}, val |-> v]
CodigoDe(cid) ==
    IF cid.kind \in {"null", "int"} THEN [raised |-> FALSE, val |-> {}]
    ELSE [raised |-> FALSE, val |-> IntOfStr(LastSegment(cid.s))]

\* One line of resultados_batch.jsonl:
\*   json      "malformed", "list", "dict"
\*   custom_id a member of CidSet
\*   response  "absent", "null", "dict"
\*   body      where body["output"][1]["content"][0]["text"] and json.loads of
\*             it stop: "no_output" (KeyError), "bad_text" (not JSON), "ok"
\*   parsed    the decoded text: "list" or "dict"
\*   spans     parsed's "spans": absent, null, or a list of items
LoadBase ==
    [json |-> "dict", custom_id |-> CidStr(<<"d", "i", "s", "c", "-", "7">>),
     response |-> "dict", body |-> "ok", parsed |-> "dict",
     spans |-> [kind |-> "list", items |-> <<ItemOk1>>]]

LoadLineSet ==
    {[LoadBase EXCEPT !.custom_id = c] : c \in CidSet}
    \cup {[LoadBase EXCEPT !.json = j] : j \in {"malformed", "list"}}
    \cup {[LoadBase EXCEPT !.response = r] : r \in {"absent", "null"}}
    \cup {[LoadBase EXCEPT !.body = b] : b \in {"no_output", "bad_text"}}
    \cup {[LoadBase EXCEPT !.parsed = "list"]}
    \cup {[LoadBase EXCEPT !.spans = [kind |-> k, items |-> <<>>]] : k \in {"absent", "null", "list"}}
    \cup {[LoadBase EXCEPT !.spans = [kind |-> "list", items |-> it],
                           !.custom_id = CidStr(<<"x", "-", "7">>)] :
             it \in {<<ItemOk1, ItemOk2>>, <<ItemOk1, ItemStr>>}}

\* Most lines resultados_batch.jsonl holds.
MaxLoadLines == 2

\* An exception outside the two try blocks: json.loads (line 31), obj.get on a
\* non-object (32), .get on a null response (39), parsed.get on a non-object or
\* iterating a null "spans" (45), item assignment on a non-object (46)
LoadRaises(l) ==
    \/ l.json # "dict"
    \/ CodigoDe(l.custom_id).raised
    \/ l.response = "null"
    \/ /\ l.response = "dict" /\ l.body = "ok"
       /\ \/ l.parsed # "dict"
          \/ l.spans.kind = "null"
          \/ \E k \in 1..Len(l.spans.items) : ~l.spans.items[k].dict

\* lines 40-45: the spans iterated; {"spans": []} when the decode fails
LoadSpans(l) ==
    IF l.response = "absent" \/ l.body # "ok" \/ l.spans.kind # "list"
    THEN <<>>
    ELSE l.spans.items

\* lines 45-47: span["CodigoPronunciamento"] = codigo; rows.append(span)
LoadRows(l) ==
    [k \in 1..Len(LoadSpans(l)) |->
        Merge(LoadSpans(l)[k].v, [CodigoPronunciamento |-> CodigoDe(l.custom_id).val])]

InitLoad ==
    /\ IdleTam
    /\ IdleAmostra
    /\ IdleBatch
    /\ IdleParse
    /\ IdleFiltro
    /\ IdleMain
    /\ IdleJsonl
    /\ IdleOrc
    /\ IdleAF
    /\ IdleHl
    /\ IdleCopia
    /\ IdleLimpar
    /\ IdleIds
    /\ \E len \in 0..MaxLoadLines : arquivoL \in [1..len -> LoadLineSet]
    /\ rowsL = <<>>
    /\ origemL = <<>>
    /\ lIdx = 0
    /\ pcLoad = "read"

\* lines 30-47: one iteration of  for line in f
LoadLine ==
    /\ pcLoad = "read"
    /\ lIdx < Len(arquivoL)
    /\ LET l == arquivoL[lIdx + 1]
       IN  IF LoadRaises(l)
           THEN /\ pcLoad' = "raised"
                /\ UNCHANGED <<rowsL, origemL, lIdx>>
           ELSE /\ rowsL' = rowsL \o LoadRows(l)
                /\ origemL' = origemL \o [k \in 1..Len(LoadRows(l)) |-> lIdx + 1]
                /\ lIdx' = lIdx + 1
                /\ UNCHANGED pcLoad
    /\ UNCHANGED <<arquivoL, varsTam, varsAmostra, varsBatch, varsParse, varsFiltro, varsMain, varsJsonl, varsOrc, varsAF, varsHl, varsCopia, varsLimpar, varsIds>>

\* lines 48-49: df = pd.DataFrame(rows); return df
LoadReturn ==
    /\ pcLoad = "read"
    /\ lIdx = Len(arquivoL)
    /\ pcLoad' = "done"
    /\ UNCHANGED <<arquivoL, rowsL, origemL, lIdx, varsTam, varsAmostra, varsBatch, varsParse, varsFiltro, varsMain, varsJsonl, varsOrc, varsAF, varsHl, varsCopia, varsLimpar, varsIds>>

NextLoad == LoadLine \/ LoadReturn

SpecLoad == InitLoad /\ [][NextLoad]_vars

\* The rows that came from line i of resultados_batch.jsonl
LoadRowsOf(i) ==
    LET ks == {k \in 1..Len(origemL) : origemL[k] = i}
    IN  IF ks = {} THEN <<>>
        ELSE SubSeq(rowsL,
                    CHOOSE a \in ks : \A b \in ks : a <= b,
                    CHOOSE a \in ks : \A b \in ks : a >= b)

\* The id create_jsonl builds for an integer: "disc-", a "-" when negative,
\* and decimal digits without leading zeros
FollowsConvention(cid) ==
    /\ cid.kind = "str"
    /\ Len(cid.s) > 5
    /\ SubSeq(cid.s, 1, 5) = <<"d", "i", "s", "c", "-">>
    /\ LET t == SubSeq(cid.s, 6, Len(cid.s))
           u == IF Head(t) = "-" THEN Tail(t) ELSE t
       IN  /\ u # <<>>
           /\ \A k \in 1..Len(u) : IsDigit(u[k])
           /\ Len(u) > 1 => u[1] # "0"
           /\ u = <<"0">> => t = u

\* A line whose record decodes to a list of span objects
LoadDecodes(l) ==
    /\ l.json = "dict" /\ l.response = "dict" /\ l.body = "ok" /\ l.parsed = "dict"
    /\ l.spans.kind = "list"
    /\ \A k \in 1..Len(l.spans.items) : l.spans.items[k].dict

\* The line being read when the parser is at "read" or "raised" with lines left
LoadCurrent == arquivoL[lIdx + 1]

\* C10 as stated: an id that does not follow "disc-{int}" never crashes the
\* parser, gives a null CodigoPronunciamento, and all spans of the record are
\* emitted with their data.
C10_IdForaDaConvencaoNulo ==
    /\ (pcLoad = "raised" /\ ~FollowsConvention(LoadCurrent.custom_id))
          => (~LoadDecodes(LoadCurrent))
    /\ \A i \in 1..lIdx :
          (~FollowsConvention(arquivoL[i].custom_id) /\ LoadDecodes(arquivoL[i])) =>
              /\ Len(LoadRowsOf(i)) = Len(arquivoL[i].spans.items)
              /\ \A k \in 1..Len(LoadRowsOf(i)) :
                    /\ LoadRowsOf(i)[k].CodigoPronunciamento = {}
                    /\ \A key \in SpanKeys :
                          LoadRowsOf(i)[k][key] = arquivoL[i].spans.items[k].v[key]

\* The text after the last "-" reads as an integer: optional blanks around an
\* optional "+" and one or more digits
EndsInInteger(cid) ==
    /\ cid.kind = "str"
    /\ \E k \in 1..Len(cid.s) :
          /\ IsDigit(cid.s[k])
          /\ \A m \in k..Len(cid.s) : IsDigit(cid.s[m]) \/ cid.s[m] = " "
          /\ \A m \in k..Len(cid.s) : \A q \in k..m :
                ~(cid.s[q] = " " /\ IsDigit(cid.s[m]))
          /\ \E j \in 0..(k - 1) :
                /\ j = 0 \/ cid.s[j] = "-"
                /\ \A m \in (j + 1)..(k - 1) : cid.s[m] \in {" ", "+"}
                /\ Cardinality({m \in (j + 1)..(k - 1) : cid.s[m] = "+"}) <= 1
                /\ \A m \in (j + 1)..(k - 1) : cid.s[m] = "+" => m = k - 1

\* C10 amended: no id crashes the parser; an id whose text after the last "-"
\* does not read as an integer (or that is no string) gives a null
\* CodigoPronunciamento, any other id gives a non-null one; and all spans of
\* the record are emitted with their data.
C10_IdNaoInteiroNulo ==
    /\ pcLoad = "raised" => (~LoadDecodes(LoadCurrent))
    /\ \A i \in 1..lIdx :
          LoadDecodes(arquivoL[i]) =>
              /\ Len(LoadRowsOf(i)) = Len(arquivoL[i].spans.items)
              /\ \A k \in 1..Len(LoadRowsOf(i)) :
                    /\ (LoadRowsOf(i)[k].CodigoPronunciamento = {})
                          <=> ~EndsInInteger(arquivoL[i].custom_id)
                    /\ \A key \in SpanKeys :
                          LoadRowsOf(i)[k][key] = arquivoL[i].spans.items[k].v[key]

C10_Witness ==
    /\ pcLoad = "done"
    /\ Len(arquivoL) = 2
    /\ arquivoL[1].custom_id = CidStr(<<"d", "i", "s", "c", "-", "x">>)
    /\ arquivoL[2].custom_id = CidStr(<<"x", "-", "7">>)
    /\ Len(arquivoL[2].spans.items) = 2
    /\ Len(rowsL) = 3
    /\ rowsL[1].CodigoPronunciamento = {}
    /\ rowsL[2].CodigoPronunciamento = {7}
    /\ rowsL[3].label = "ironia"

\* ------------------------------------------------------------------------
\* amostrar_discursos.py: SQL_WORDS_FILTER (the eligibility filter)
\* A text is a sequence of characters; a NULL TextoIntegral is the empty
\* option set {} and a stored text t is {t}.
\* ------------------------------------------------------------------------
Brancos == {" ", "\n", "\r", "\t"}

\* COALESCE(TextoIntegral, '')
Coalesce(texto) == IF texto = {} THEN <<>> ELSE CHOOSE t \in texto : TRUE

\* REPLACE(X, CHAR(c), ' ')
ReplaceChar(s, c) == [i \in 1..Len(s) |-> IF s[i] = c THEN " " ELSE s[i]]

\* REPLACE(X, '  ', ' '): a single left-to-right pass over the
\* non-overlapping occurrences of two spaces. No occurrence spans a
\* character other than a space, so the pass over s is the pass over the part
\* up to such a character followed by the pass over the rest; the pass over a
\* run of L spaces leaves ceil(L/2) of them.
Corte(s) ==
    LET n == Len(s)
        mid == Max(1, n \div 2)
    IN  IF \E p \in mid..(n - 1) : s[p] # " "
        THEN CHOOSE p \in mid..(n - 1) :
                 s[p] # " " /\ \A q \in mid..(p - 1) : s[q] = " "
        ELSE CHOOSE p \in 1..(mid - 1) :
                 s[p] # " " /\ \A q \in (p + 1)..(mid - 1) : s[q] = " "

RECURSIVE ReplaceDuplo(_)
ReplaceDuploNenhum(s) == s
ReplaceDuplo(s) ==
    LET n == Len(s)
    IN  IF \A p \in 1..(n - 1) : s[p] = " "
        THEN LET L == IF n > 0 /\ s[n] # " " THEN n - 1 ELSE n
             IN  [i \in 1..((L + 1) \div 2) |-> " "] \o SubSeq(s, L + 1, n)
        ELSE ReplaceDuplo(SubSeq(s, 1, Corte(s)))
             \o ReplaceDuplo(SubSeq(s, Corte(s) + 1, n))

\* TRIM(X): removes the spaces at both ends.
Trim(s) ==
    IF \A i \in 1..Len(s) : s[i] = " " THEN <<>>
    ELSE LET a == CHOOSE i \in 1..Len(s) :
                      s[i] # " " /\ \A j \in 1..(i - 1) : s[j] = " "
             b == CHOOSE i \in 1..Len(s) :
                      s[i] # " " /\ \A j \in (i + 1)..Len(s) : s[j] = " "
         IN  SubSeq(s, a, b)

\* The column T of the CTE `base`.
NormalizaT(texto) ==
    Trim(ReplaceDuplo(
            ReplaceChar(ReplaceChar(ReplaceChar(Coalesce(texto), "\n"), "\r"), "\t")))

\* REPLACE(T, ' ', '')
RemoveEspacos(s) == SelectSeq(s, LAMBDA c : c # " ")

\* The WHERE clause: (LENGTH(T) - LENGTH(REPLACE(T, ' ', ''))) + 1 > 200
PassaFiltro(texto) ==
    LET T == NormalizaT(texto)
    IN  (Len(T) - Len(RemoveEspacos(T))) + 1 > 200

\* The texts of the table: w one-letter words separated by one space, except
\* the gap after word `pos`, which holds the separator `sep`; `lead` and
\* `trail` surround the words.
Palavreado(w, sep, pos) ==
    LET base == [i \in 1..(2 * w - 1) |-> IF i % 2 = 1 THEN "a" ELSE " "]
    IN  IF pos < w
        THEN SubSeq(base, 1, 2 * pos - 1) \o sep \o SubSeq(base, 2 * pos + 1, 2 * w - 1)
        ELSE base

NumPalavrasOpts == {0, 1, 2, 199, 200, 201, 202}
Separadores ==
    { <<" ">>, <<" ", " ">>, <<" ", " ", " ">>, <<" ", " ", " ", " ">>,
      <<"\n">>, <<"\t", "\t">>, <<"\r", "\n">>, <<" ", "\n", " ">>,
      <<"\t", " ", "\n">> }
Margens == { <<>>, <<" ">>, <<"\n">>, <<"\t", " ", " ">> }

TextosDaTabela ==
    {{}} \cup
    { {lead \o Palavreado(w, sep, pos) \o trail} :
        w \in NumPalavrasOpts, sep \in Separadores, pos \in {1, 100},
        lead \in Margens, trail \in Margens }

InitFiltro ==
    /\ textoIntegral \in TextosDaTabela
    /\ elegivel = FALSE
    /\ pcFiltro = "where"
    /\ IdleTam
    /\ IdleAmostra
    /\ IdleBatch
    /\ IdleParse
    /\ IdleLoad
    /\ IdleMain
    /\ IdleJsonl
    /\ IdleOrc
    /\ IdleAF
    /\ IdleHl
    /\ IdleCopia
    /\ IdleLimpar
    /\ IdleIds

\* The row of the table is evaluated against the WHERE clause.
FiltroWhere ==
    /\ pcFiltro = "where"
    /\ elegivel' = PassaFiltro(textoIntegral)
    /\ pcFiltro' = "done"
    /\ UNCHANGED <<textoIntegral, varsTam, varsAmostra, varsBatch, varsParse, varsLoad, varsMain, varsJsonl, varsOrc, varsAF, varsHl, varsCopia, varsLimpar, varsIds>>

NextFiltro == FiltroWhere

SpecFiltro == InitFiltro /\ [][NextFiltro]_vars

\* The number of words of a text: its maximal runs of non-blank characters.
NumPalavras(s) ==
    Cardinality({i \in 1..Len(s) :
                    s[i] \notin Brancos /\ (i = 1 \/ s[i - 1] \in Brancos)})

\* Position i lies in a run of blanks that has a word before and after it.
BrancoInterno(s, i) ==
    /\ s[i] \in Brancos
    /\ \E j \in 1..i : s[j] \notin Brancos
    /\ \E j \in i..Len(s) : s[j] \notin Brancos

\* Position i is the 1st, 3rd, 5th, ... blank of its run.
ImparNaCorrida(s, i) ==
    \E k \in 0..(i - 1) :
        /\ k % 2 = 0
        /\ \A j \in (i - k)..i : s[j] \in Brancos
        /\ (i - k = 1 \/ s[i - k - 1] \notin Brancos)

\* Every run of blanks between two words has at most two characters.
SeparacaoCurta(s) ==
    \A i \in 1..(Len(s) - 2) :
        ~(BrancoInterno(s, i) /\ s[i + 1] \in Brancos /\ s[i + 2] \in Brancos)

\* C11 (as stated): a text is admitted exactly when it is not NULL and has
\* more than 200 words.
C11_AdmiteSeMaisDe200Palavras ==
    pcFiltro = "done" =>
        (elegivel <=> (textoIntegral # {} /\ NumPalavras(Coalesce(textoIntegral)) > 200))

\* C11 (amended): a NULL text is never admitted; a text is admitted exactly
\* when one plus the number of counted blanks exceeds 200, a run of L blanks
\* between two words counting for ceil(L/2); hence for texts whose words are
\* separated by at most two blanks it is admitted exactly when it has more
\* than 200 words (201 words admitted, 200 words rejected).
C11_FiltroAproximado ==
    pcFiltro = "done" =>
        LET s == Coalesce(textoIntegral)
            contados == {i \in 1..Len(s) : BrancoInterno(s, i) /\ ImparNaCorrida(s, i)}
        IN  /\ textoIntegral = {} => ~elegivel
            /\ elegivel <=> (Cardinality(contados) + 1 > 200)
            /\ SeparacaoCurta(s) => (elegivel <=> NumPalavras(s) > 200)

\* A text of 201 words with a two-blank separator was admitted.
C11_Witness ==
    /\ pcFiltro = "done"
    /\ elegivel
    /\ textoIntegral # {}
    /\ NumPalavras(Coalesce(textoIntegral)) = 201
    /\ \E i \in 1..Len(Coalesce(textoIntegral)) :
          /\ BrancoInterno(Coalesce(textoIntegral), i)
          /\ Coalesce(textoIntegral)[i + 1] \in Brancos

\* ------------------------------------------------------------------------
\* amostrar_discursos.py: main
\* disco holds the three SQLite files (SRC_DISCURSOS, SRC_SENADORES,
\* DEST_DB): whether the file exists, its tables, and the number of rows of
\* its table (for SRC_DISCURSOS the rows that pass SQL_WORDS_FILTER).
\* disco0 is the disk as the run found it.
\* ------------------------------------------------------------------------
Arquivo(tabelas, linhas) == [existe |-> TRUE, tabelas |-> tabelas, linhas |-> linhas]

\* Eligible rows of Discursos in the runs considered.
ElegiveisOpts == {0, 3, 150}

InitMain ==
    /\ disco \in
         [discursos : {Ausente, Arquivo({}, 0)}
                        \cup {Arquivo({"Discursos"}, n) : n \in ElegiveisOpts},
          senadores : {Ausente, Arquivo({}, 0), Arquivo({"Senadores"}, 2)},
          dest      : {Ausente, Arquivo({}, 0), Arquivo({"DiscursosAmostra"}, 1)}]
    /\ disco0 = disco
    /\ mainA = [pc |-> "start", erro |-> "", ids |-> 0, msgs |-> <<>>]
    /\ IdleTam
    /\ IdleAmostra
    /\ IdleBatch
    /\ IdleParse
    /\ IdleLoad
    /\ IdleFiltro
    /\ IdleJsonl
    /\ IdleOrc
    /\ IdleAF
    /\ IdleHl
    /\ IdleCopia
    /\ IdleLimpar
    /\ IdleIds

\* if not SRC_DISCURSOS.exists(): raise FileNotFoundError
MainCheckDiscursos ==
    /\ mainA.pc = "start"
    /\ mainA' = IF disco.discursos.existe
                THEN [mainA EXCEPT !.pc = "check_sen"]
                ELSE [mainA EXCEPT !.pc = "aborted", !.erro = "FileNotFoundError"]
    /\ UNCHANGED <<disco, disco0, varsTam, varsAmostra, varsBatch, varsParse, varsLoad, varsFiltro, varsJsonl, varsOrc, varsAF, varsHl, varsCopia, varsLimpar, varsIds>>

\* if not SRC_SENADORES.exists(): raise FileNotFoundError
MainCheckSenadores ==
    /\ mainA.pc = "check_sen"
    /\ mainA' = IF disco.senadores.existe
                THEN [mainA EXCEPT !.pc = "unlink"]
                ELSE [mainA EXCEPT !.pc = "aborted", !.erro = "FileNotFoundError"]
    /\ UNCHANGED <<disco, disco0, varsTam, varsAmostra, varsBatch, varsParse, varsLoad, varsFiltro, varsJsonl, varsOrc, varsAF, varsHl, varsCopia, varsLimpar, varsIds>>

\* DEST_DB.parent.mkdir(exist_ok=True); if DEST_DB.exists(): DEST_DB.unlink()
MainUnlinkDest ==
    /\ mainA.pc = "unlink"
    /\ disco' = [disco EXCEPT !.dest = Ausente]
    /\ mainA' = [mainA EXCEPT !.pc = "connect"]
    /\ UNCHANGED <<disco0, varsTam, varsAmostra, varsBatch, varsParse, varsLoad, varsFiltro, varsJsonl, varsOrc, varsAF, varsHl, varsCopia, varsLimpar, varsIds>>

\* The three sqlite3.connect calls; connecting to the absent DEST_DB creates
\* an empty database file.
MainConnect ==
    /\ mainA.pc = "connect"
    /\ disco' = [disco EXCEPT !.dest = Arquivo({}, 0)]
    /\ mainA' = [mainA EXCEPT !.pc = "coletar"]
    /\ UNCHANGED <<disco0, varsTam, varsAmostra, varsBatch, varsParse, varsLoad, varsFiltro, varsJsonl, varsOrc, varsAF, varsHl, varsCopia, varsLimpar, varsIds>>

\* coletar_elegiveis and amostrar_por_partido (one stratum); the query raises
\* when the file has no table Discursos, and the finally block closes the
\* connections.
MainColetarAmostrar ==
    /\ mainA.pc = "coletar"
    /\ mainA' = IF "Discursos" \in disco.discursos.tabelas
                THEN [mainA EXCEPT !.pc = "amostrado",
                         !.ids = tamanho_amostra_por_partido(disco.discursos.linhas)]
                ELSE [mainA EXCEPT !.pc = "aborted", !.erro = "OperationalError"]
    /\ UNCHANGED <<disco, disco0, varsTam, varsAmostra, varsBatch, varsParse, varsLoad, varsFiltro, varsJsonl, varsOrc, varsAF, varsHl, varsCopia, varsLimpar, varsIds>>

\* if not ids: print("[AVISO] ..."); return
MainAvisoVazio ==
    /\ mainA.pc = "amostrado"
    /\ mainA.ids = 0
    /\ mainA' = [mainA EXCEPT !.pc = "done",
                    !.msgs = Append(@, "AVISO Nenhum discurso elegivel")]
    /\ UNCHANGED <<disco, disco0, varsTam, varsAmostra, varsBatch, varsParse, varsLoad, varsFiltro, varsJsonl, varsOrc, varsAF, varsHl, varsCopia, varsLimpar, varsIds>>

\* copiar_amostra_com_join: DROP TABLE IF EXISTS on the destination, then the
\* CREATE TABLE ... AS SELECT with LEFT JOIN sen_db.Senadores, which raises
\* when the attached file has no table Senadores.
MainCopiar ==
    /\ mainA.pc = "amostrado"
    /\ mainA.ids > 0
    /\ IF "Senadores" \in disco.senadores.tabelas
       THEN /\ disco' = [disco EXCEPT !.dest = Arquivo({"DiscursosAmostra"}, mainA.ids)]
            /\ mainA' = [mainA EXCEPT !.pc = "done",
                            !.msgs = Append(@, "OK Tabela criada")]
       ELSE /\ disco' = disco
            /\ mainA' = [mainA EXCEPT !.pc = "aborted", !.erro = "OperationalError"]
    /\ UNCHANGED <<disco0, varsTam, varsAmostra, varsBatch, varsParse, varsLoad, varsFiltro, varsJsonl, varsOrc, varsAF, varsHl, varsCopia, varsLimpar, varsIds>>

NextMain ==
    \/ MainCheckDiscursos
    \/ MainCheckSenadores
    \/ MainUnlinkDest
    \/ MainConnect
    \/ MainColetarAmostrar
    \/ MainAvisoVazio
    \/ MainCopiar

SpecMain == InitMain /\ [][NextMain]_vars

\* ------------------------------------------------------------------------
\* batch_figuras.py: iter_discursos, create_jsonl and the start of main
\* srcDb is SRC_DB (the file, its table DiscursosAmostra and the rows of the
\* table); jsonl is the requests file, {} when absent and {lines} otherwise;
\* jsonl0 is the requests file as the run found it; origemJ gives, for each
\* line written, the index of the row it was built from.
\* ------------------------------------------------------------------------
\* Largest number of rows of DiscursosAmostra.
MaxDisc == 2

TextosJ == { <<>>, <<"a">>, <<"a", "b">>, <<"a", "b", "c">> }
TextoOpts == {{}} \cup {{t} : t \in TextosJ}
RowsJ ==
    UNION { [1..k -> [CodigoPronunciamento : {7}, TextoIntegral : TextoOpts]] :
            k \in 0..MaxDisc }

\* rec.get("TextoIntegral") or ""
TextoOuVazio(rec) ==
    IF rec.TextoIntegral = {} THEN <<>> ELSE CHOOSE t \in rec.TextoIntegral : TRUE

\* if max_chars is not None and len(texto) > max_chars: texto = texto[:max_chars]
Truncar(texto, max_chars) ==
    IF max_chars # {} /\ Len(texto) > (CHOOSE m \in max_chars : TRUE)
    THEN SubSeq(texto, 1, CHOOSE m \in max_chars : TRUE)
    ELSE texto

\* build_request_body and the request line of create_jsonl
RequestLine(codigo, texto) ==
    [custom_id |-> [prefixo |-> "disc-", codigo |-> codigo],
     method |-> "POST",
     url |-> "/v1/responses",
     body |-> [model |-> "gpt-5",
               input |-> <<"developer", <<"user", texto>>>>,
               chaves |-> {"model", "input", "text", "reasoning", "tools", "store"}],
     chaves |-> {"custom_id", "method", "url", "body"}]

InitJsonl ==
    /\ srcDb \in {[existe |-> FALSE, tabela |-> FALSE, rows |-> <<>>],
                  [existe |-> TRUE, tabela |-> FALSE, rows |-> <<>>]}
                 \cup {[existe |-> TRUE, tabela |-> TRUE, rows |-> r] : r \in RowsJ}
    /\ jsonl \in {{}, {<<RequestLine(1, <<"z">>)>>}}
    /\ jsonl0 = jsonl
    /\ origemJ = <<>>
    /\ \E m \in {{}, {1}, {2}} :
          cj = [pc |-> "open", max_chars |-> m, i |-> 0, n |-> 0, erro |-> "", msgs |-> <<>>]
    /\ IdleTam
    /\ IdleAmostra
    /\ IdleBatch
    /\ IdleParse
    /\ IdleLoad
    /\ IdleFiltro
    /\ IdleMain
    /\ IdleOrc
    /\ IdleAF
    /\ IdleHl
    /\ IdleCopia
    /\ IdleLimpar
    /\ IdleIds

\* with jsonl_path.open("w") as f: the file is created or truncated.
CjOpen ==
    /\ cj.pc = "open"
    /\ jsonl' = {<<>>}
    /\ cj' = [cj EXCEPT !.pc = "iter"]
    /\ UNCHANGED <<srcDb, jsonl0, origemJ, varsTam, varsAmostra, varsBatch, varsParse, varsLoad, varsFiltro, varsMain, varsOrc, varsAF, varsHl, varsCopia, varsLimpar, varsIds>>

\* The first next() on iter_discursos runs the generator up to its query:
\* FileNotFoundError if SRC_DB is absent, OperationalError if the table is.
CjIterStart ==
    /\ cj.pc = "iter"
    /\ cj' = IF ~srcDb.existe
             THEN [cj EXCEPT !.pc = "aborted", !.erro = "FileNotFoundError"]
             ELSE IF ~srcDb.tabela
             THEN [cj EXCEPT !.pc = "aborted", !.erro = "OperationalError"]
             ELSE [cj EXCEPT !.pc = "loop"]
    /\ UNCHANGED <<srcDb, jsonl, jsonl0, origemJ, varsTam, varsAmostra, varsBatch, varsParse, varsLoad, varsFiltro, varsMain, varsOrc, varsAF, varsHl, varsCopia, varsLimpar, varsIds>>

\* One row of the cursor: iter_discursos yields it when its text has at
\* least min_chars = 1 characters, and create_jsonl writes its request line.
CjRecord ==
    /\ cj.pc = "loop"
    /\ cj.i < Len(srcDb.rows)
    /\ LET rec == srcDb.rows[cj.i + 1]
           texto == TextoOuVazio(rec)
       IN  IF Len(texto) >= 1
           THEN /\ jsonl' = {Append(CHOOSE f \in jsonl : TRUE,
                                    RequestLine(rec.CodigoPronunciamento,
                                                Truncar(texto, cj.max_chars)))}
                /\ origemJ' = Append(origemJ, cj.i + 1)
                /\ cj' = [cj EXCEPT !.i = @ + 1, !.n = @ + 1]
           ELSE /\ cj' = [cj EXCEPT !.i = @ + 1]
                /\ UNCHANGED <<jsonl, origemJ>>
    /\ UNCHANGED <<srcDb, jsonl0, varsTam, varsAmostra, varsBatch, varsParse, varsLoad, varsFiltro, varsMain, varsOrc, varsAF, varsHl, varsCopia, varsLimpar, varsIds>>

\* The cursor is exhausted: create_jsonl returns n.
CjReturn ==
    /\ cj.pc = "loop"
    /\ cj.i = Len(srcDb.rows)
    /\ cj' = [cj EXCEPT !.pc = "returned"]
    /\ UNCHANGED <<srcDb, jsonl, jsonl0, origemJ, varsTam, varsAmostra, varsBatch, varsParse, varsLoad, varsFiltro, varsMain, varsOrc, varsAF, varsHl, varsCopia, varsLimpar, varsIds>>

\* main: if n == 0: print("[AVISO] JSONL vazio. Nada a fazer."); return
CjMainVazio ==
    /\ cj.pc = "returned"
    /\ cj.n = 0
    /\ cj' = [cj EXCEPT !.pc = "done", !.msgs = Append(@, "AVISO JSONL vazio")]
    /\ UNCHANGED <<srcDb, jsonl, jsonl0, origemJ, varsTam, varsAmostra, varsBatch, varsParse, varsLoad, varsFiltro, varsMain, varsOrc, varsAF, varsHl, varsCopia, varsLimpar, varsIds>>

\* main: print("[OK] JSONL criado ..."), and the batch is submitted.
CjMainCriado ==
    /\ cj.pc = "returned"
    /\ cj.n > 0
    /\ cj' = [cj EXCEPT !.pc = "submit", !.msgs = Append(@, "OK JSONL criado")]
    /\ UNCHANGED <<srcDb, jsonl, jsonl0, origemJ, varsTam, varsAmostra, varsBatch, varsParse, varsLoad, varsFiltro, varsMain, varsOrc, varsAF, varsHl, varsCopia, varsLimpar, varsIds>>

NextJsonl ==
    \/ CjOpen
    \/ CjIterStart
    \/ CjRecord
    \/ CjReturn
    \/ CjMainVazio
    \/ CjMainCriado

SpecJsonl == InitJsonl /\ [][NextJsonl]_vars

\* The lines written so far, and the text of the row line k was built from.
LinhasJ == IF jsonl = {} THEN <<>> ELSE CHOOSE f \in jsonl : TRUE
TextoOriginalJ(k) == TextoOuVazio(srcDb.rows[origemJ[k]])

\* C14: whenever create_jsonl truncates a text (max_chars is given and the
\* text is longer), the line embeds the first max_chars characters and
\* records the truncation: it differs from the line written for a text that
\* is exactly those characters and was not truncated.
C14_TruncamentoRegistrado ==
    (cj.pc \in {"loop", "returned", "submit", "done"} /\ cj.max_chars # {}) =>
        \A k \in 1..Len(origemJ) :
            LET m == CHOOSE x \in cj.max_chars : TRUE
                prefixo == SubSeq(TextoOriginalJ(k), 1, m)
            IN  Len(TextoOriginalJ(k)) > m =>
                    /\ LinhasJ[k].body.input[2][2] = prefixo
                    /\ LinhasJ[k] # RequestLine(srcDb.rows[origemJ[k]].CodigoPronunciamento,
                                                Truncar(prefixo, cj.max_chars))

\* The two entry points whose runs can abort on a missing input or end on
\* an empty selection.
InitEntradas == InitMain \/ InitJsonl
NextEntradas == NextMain \/ NextJsonl
SpecEntradas == InitEntradas /\ [][NextEntradas]_vars

\* C12: whenever a run aborts on a missing source file or table, no file or
\* table has been created, truncated, deleted or overwritten: the sampling
\* run finds the disk as it was at its start, and the batch run finds the
\* requests file as it was at its start.
C12_FalhaAntesDeEfeitos ==
    /\ mainA.pc = "aborted" => disco = disco0
    /\ cj.pc = "aborted" => jsonl = jsonl0

\* ------------------------------------------------------------------------
\* src/orcamento.py: sample_discursos_by_year
\* tabelaOrc is the table read from db_path: each row has its index, its
\* year, the number of words of TextoIntegral and its number of tokens.
\* pct_per_year is a rational num/den; the values considered are those for
\* which the double-precision products of the code are exact. Money is
\* counted in units of 10^-10 USD, prices in units of 10^-4 USD per million
\* tokens, so that the arithmetic of the code is integer arithmetic.
\* ------------------------------------------------------------------------
\* Largest number of rows of the table.
MaxRowsOrc == 3

PRICES_PER_MILLION == [input |-> 6250, cached_input |-> 625, output |-> 50000]

Frac(n, d) == [num |-> n, den |-> d]

\* _ensure_fraction, for value > 0: value / 100.0 if value > 1 else value
EnsureFraction(value) ==
    IF value.num > value.den THEN Frac(value.num, value.den * 100) ELSE value

\* max(1, int(np.floor(len(g) * pct)))
TamanhoPorAno(len, pct) == Max(1, (len * pct.num) \div pct.den)

\* Input cost of one item with p prompt tokens and t text tokens.
CustoInputSemCache(p, t, prompt_cached) == (p + t) * PRICES_PER_MILLION.input
CustoInput(p, t, prompt_cached) ==
    IF prompt_cached /\ p > 0
    THEN t * PRICES_PER_MILLION.input + p * PRICES_PER_MILLION.cached_input
    ELSE (p + t) * PRICES_PER_MILLION.input

\* est_output_tokens and est_custo_output_usd of one item.
OutputTokens(estimate) ==
    IF estimate # {} /\ (CHOOSE c \in estimate : TRUE) >= 0
    THEN CHOOSE c \in estimate : TRUE
    ELSE 0
CustoOutput(estimate) == OutputTokens(estimate) * PRICES_PER_MILLION.output

\* The cost columns added to a sampled row.
ComCustos(row, p, prompt_cached, estimate) ==
    [id |-> row.id, Ano |-> row.Ano,
     n_tokens_texto |-> row.n_tokens_texto,
     n_tokens_prompt |-> p,
     n_tokens_input_total |-> p + row.n_tokens_texto,
     est_custo_input |-> CustoInput(p, row.n_tokens_texto, prompt_cached),
     est_output_tokens |-> OutputTokens(estimate),
     est_custo_output |-> CustoOutput(estimate),
     est_custo_total |-> CustoInput(p, row.n_tokens_texto, prompt_cached)
                          + CustoOutput(estimate)]

PctOpts ==
    { Frac(0, 1), Frac(1, 8), Frac(1, 2), Frac(1, 1), Frac(3, 2), Frac(50, 1),
      Frac(100, 1), Frac(150, 1) }

TabelasOrc ==
    UNION { { [i \in 1..k |->
                 [id |-> i, Ano |-> a[i], palavras |-> w[i],
                  n_tokens_texto |-> IF i % 2 = 1 THEN 90 ELSE 1500]] :
              a \in [1..k -> {2019, 2020}], w \in [1..k -> {200, 201}] } :
            k \in 0..MaxRowsOrc }

InitOrc ==
    /\ tabelaOrc \in TabelasOrc
    /\ \E v \in PctOpts, p \in {0, 10}, pc \in BOOLEAN, e \in {{}, {-1}, {0}, {300}} :
          orc = [pc |-> "start", pct_per_year |-> v, pct |-> Frac(0, 1),
                 prompt |-> p, prompt_cached |-> pc, estimate_output |-> e,
                 df |-> {}, anos |-> <<>>, amostra |-> {}, custos |-> {},
                 erro |-> "", onde |-> ""]
    /\ IdleTam
    /\ IdleAmostra
    /\ IdleBatch
    /\ IdleParse
    /\ IdleLoad
    /\ IdleFiltro
    /\ IdleMain
    /\ IdleJsonl
    /\ IdleAF
    /\ IdleHl
    /\ IdleCopia
    /\ IdleLimpar
    /\ IdleIds

\* pct = _ensure_fraction(pct_per_year): raises ValueError when value <= 0.
OrcEnsureFraction ==
    /\ orc.pc = "start"
    /\ orc' = IF orc.pct_per_year.num <= 0
              THEN [orc EXCEPT !.pc = "aborted", !.erro = "ValueError",
                               !.onde = "_ensure_fraction"]
              ELSE [orc EXCEPT !.pc = "filter", !.pct = EnsureFraction(orc.pct_per_year)]
    /\ UNCHANGED <<tabelaOrc, varsTam, varsAmostra, varsBatch, varsParse, varsLoad, varsFiltro, varsMain, varsJsonl, varsAF, varsHl, varsCopia, varsLimpar, varsIds>>

\* The table is read, the rows with more than min_words = 200 words are
\* kept, and ValueError is raised when none is left; groupby("Ano") visits
\* the years in ascending order.
OrcFiltro ==
    /\ orc.pc = "filter"
    /\ LET df == {tabelaOrc[i] : i \in {j \in 1..Len(tabelaOrc) : tabelaOrc[j].palavras > 200}}
           anos == {r.Ano : r \in df}
       IN  orc' = IF df = {}
                  THEN [orc EXCEPT !.pc = "aborted", !.erro = "ValueError",
                                   !.onde = "filtro"]
                  ELSE [orc EXCEPT !.pc = "sample", !.df = df,
                           !.anos = IF anos = {2019, 2020} THEN <<2019, 2020>>
                                    ELSE <<CHOOSE a \in anos : TRUE>>]
    /\ UNCHANGED <<tabelaOrc, varsTam, varsAmostra, varsBatch, varsParse, varsLoad, varsFiltro, varsMain, varsJsonl, varsAF, varsHl, varsCopia, varsLimpar, varsIds>>

\* _sample_group for the next year: rng.choice(g.index.values, size=n,
\* replace=False) returns n distinct rows of the group, and raises
\* ValueError when n exceeds the size of the group.
OrcSampleGroup ==
    /\ orc.pc = "sample"
    /\ orc.anos # <<>>
    /\ LET g == {r \in orc.df : r.Ano = Head(orc.anos)}
           n == TamanhoPorAno(Cardinality(g), orc.pct)
       IN  IF n > Cardinality(g)
           THEN orc' = [orc EXCEPT !.pc = "aborted", !.erro = "ValueError",
                                   !.onde = "rng.choice"]
           ELSE \E idx \in SUBSET g :
                   /\ Cardinality(idx) = n
                   /\ orc' = [orc EXCEPT !.amostra = @ \cup idx, !.anos = Tail(@)]
    /\ UNCHANGED <<tabelaOrc, varsTam, varsAmostra, varsBatch, varsParse, varsLoad, varsFiltro, varsMain, varsJsonl, varsAF, varsHl, varsCopia, varsLimpar, varsIds>>

\* Token counts, cost columns and summaries; the function returns.
OrcCustos ==
    /\ orc.pc = "sample"
    /\ orc.anos = <<>>
    /\ orc' = [orc EXCEPT !.pc = "done",
                  !.custos = {ComCustos(r, orc.prompt, orc.prompt_cached,
                                        orc.estimate_output) : r \in orc.amostra}]
    /\ UNCHANGED <<tabelaOrc, varsTam, varsAmostra, varsBatch, varsParse, varsLoad, varsFiltro, varsMain, varsJsonl, varsAF, varsHl, varsCopia, varsLimpar, varsIds>>

NextOrc ==
    \/ OrcEnsureFraction
    \/ OrcFiltro
    \/ OrcSampleGroup
    \/ OrcCustos

SpecOrc == InitOrc /\ [][NextOrc]_vars

\* C15 (as stated): for every sampled record with p prompt tokens and t text
\* tokens the input cost is t*price_input + p*price_cached when the prompt is
\* cached and (p + t)*price_input otherwise, the output cost is 0 unless a
\* count c is supplied and then c*price_output, and the total is their sum
\* (all per million tokens).
C15_CustoPorItem ==
    orc.pc = "done" =>
        \A r \in orc.custos :
            LET p == r.n_tokens_prompt
                t == r.n_tokens_texto
            IN  /\ r.est_custo_input =
                      IF orc.prompt_cached
                      THEN t * PRICES_PER_MILLION.input + p * PRICES_PER_MILLION.cached_input
                      ELSE (p + t) * PRICES_PER_MILLION.input
                /\ r.est_custo_output =
                      IF orc.estimate_output = {} THEN 0
                      ELSE (CHOOSE c \in orc.estimate_output : TRUE) * PRICES_PER_MILLION.output
                /\ r.est_custo_total = r.est_custo_input + r.est_custo_output

\* C15 (amended): as stated, except that the output cost is c*price_output
\* only when the supplied count c is not negative; a negative count is
\* treated as not supplied and costs 0.
C15_CustoPorItemNaoNegativo ==
    orc.pc = "done" =>
        \A r \in orc.custos :
            LET p == r.n_tokens_prompt
                t == r.n_tokens_texto
            IN  /\ p = orc.prompt
                /\ r.est_custo_input =
                      IF orc.prompt_cached
                      THEN t * PRICES_PER_MILLION.input + p * PRICES_PER_MILLION.cached_input
                      ELSE (p + t) * PRICES_PER_MILLION.input
                /\ r.est_custo_output =
                      IF orc.estimate_output = {} \/ \E c \in orc.estimate_output : c < 0
                      THEN 0
                      ELSE (CHOOSE c \in orc.estimate_output : TRUE) * PRICES_PER_MILLION.output
                /\ r.est_custo_total = r.est_custo_input + r.est_custo_output

\* A record with 10 prompt tokens (cached) and 90 text tokens was costed at
\* 90*0.625/1e6 + 10*0.0625/1e6 USD of input, with an output estimate.
C15_Witness ==
    /\ orc.pc = "done"
    /\ orc.prompt_cached
    /\ orc.estimate_output = {300}
    /\ \E r \in orc.custos :
          /\ r.n_tokens_prompt = 10
          /\ r.n_tokens_texto = 90
          /\ r.est_custo_input = 568750
          /\ r.est_custo_total = 568750 + 300 * 50000

\* C16: for every pct_per_year > 0 and every year with n >= 1 eligible rows,
\* the call selects exactly max(1, floor(n * pct)) distinct rows of that year,
\* pct being pct_per_year or, above 1, its hundredth; the selection never asks
\* for more rows than the year holds, so rng.choice never fails.
C16_AmostraPorAno ==
    /\ orc.onde # "rng.choice"
    /\ orc.pc = "done" =>
          \A a \in {2019, 2020} :
              LET g == {r \in orc.df : r.Ano = a}
                  escolhidos == {r \in orc.amostra : r.Ano = a}
                  n == Cardinality(g)
                  v == orc.pct_per_year
                  k == IF v.num > v.den THEN (n * v.num) \div (v.den * 100)
                       ELSE (n * v.num) \div v.den
              IN  g # {} =>
                      /\ escolhidos \subseteq g
                      /\ Cardinality(escolhidos) = Max(1, k)
                      /\ Max(1, k) <= n

\* The three runs that can find nothing to sample or to send.
InitVazios == InitMain \/ InitJsonl \/ InitOrc
NextVazios == NextMain \/ NextJsonl \/ NextOrc
SpecVazios == InitVazios /\ [][NextVazios]_vars

\* C13: a run whose filter or sampler yields nothing ends with an explicit
\* notice and without an error, and leaves no empty artifact: no empty
\* destination database after the party sampler, no empty requests file
\* after the request builder, no exception out of the year sampler.
C13_VazioSemArtefato ==
    /\ (mainA.pc = "done" /\ mainA.ids = 0) =>
          /\ mainA.erro = ""
          /\ \E i \in 1..Len(mainA.msgs) : mainA.msgs[i] = "AVISO Nenhum discurso elegivel"
          /\ ~(disco.dest.existe /\ disco.dest.linhas = 0)
    /\ (cj.pc = "done" /\ cj.n = 0) =>
          /\ cj.erro = ""
          /\ \E i \in 1..Len(cj.msgs) : cj.msgs[i] = "AVISO JSONL vazio"
          /\ jsonl # {<<>>}
    /\ (/\ orc.pc \in {"sample", "aborted", "done"}
        /\ orc.pct_per_year.num > 0
        /\ \A i \in 1..Len(tabelaOrc) : tabelaOrc[i].palavras <= 200) =>
          orc.erro = ""

\* ------------------------------------------------------------------------
\* utils.py: apply_filters
\* A key of the filter dict that is absent or None is {}, a present value v
\* is {v}; lists are sequences, q and the span texts are sequences of
\* characters, confidences are counted in tenths, dates are day numbers.
\* ------------------------------------------------------------------------
\* Largest number of rows of the dataframe.
MaxRowsAF == 2

Lower(c) == IF c = "A" THEN "a" ELSE IF c = "B" THEN "b" ELSE c

\* re.search(q, text, re.IGNORECASE) for a pattern made of literal characters
\* and '.', which matches any character; this is what
\* Series.str.contains(q, case=False) evaluates, regex=True being the default.
ReSearchLiteral(q, text) ==
    \E off \in 0..(Len(text) - Len(q)) :
        \A i \in 1..Len(q) : Lower(q[i]) = Lower(text[off + i])
ReSearch(q, text) ==
    \E off \in 0..(Len(text) - Len(q)) :
        \A i \in 1..Len(q) : q[i] = "." \/ Lower(q[i]) = Lower(text[off + i])

\* re.compile raises re.error for an unbalanced parenthesis.
ReError(q) == \E i \in 1..Len(q) : q[i] = "("

\* out["text"].str.contains(q, case=False, na=False) for one row
StrContains(row, q) ==
    IF row.text = {} THEN FALSE ELSE ReSearch(q, CHOOSE t \in row.text : TRUE)

Truthy(opt) == opt # {} /\ opt # {<<>>}
Val(opt) == CHOOSE v \in opt : TRUE

\* The row survives every filter that apply_filters applies for f.
PassaFiltros(row, f) ==
    /\ Truthy(f.labels) => row.label \in Range(Val(f.labels))
    /\ Truthy(f.oradores) => row.NomeParlamentar \in Range(Val(f.oradores))
    /\ Truthy(f.partidos) => row.SiglaPartidoParlamentarNaData \in Range(Val(f.partidos))
    /\ f.conf_min # {} => row.confidence >= Val(f.conf_min)
    /\ (f.data_ini # {} /\ f.data_fim # {}) =>
          (row.Data >= Val(f.data_ini) /\ row.Data <= Val(f.data_fim))
    /\ Truthy(f.q) => StrContains(row, Val(f.q))

LinhasAF ==
    { [label |-> "ironia", NomeParlamentar |-> "Ana", SiglaPartidoParlamentarNaData |-> "PT",
       confidence |-> 5, Data |-> 1, text |-> {<<"a", "b">>}],
      [label |-> "metafora", NomeParlamentar |-> "Bia", SiglaPartidoParlamentarNaData |-> "MDB",
       confidence |-> 9, Data |-> 2, text |-> {<<"A">>}],
      [label |-> "ironia", NomeParlamentar |-> "Ana", SiglaPartidoParlamentarNaData |-> "MDB",
       confidence |-> 9, Data |-> 3, text |-> {}],
      [label |-> "metafora", NomeParlamentar |-> "Ana", SiglaPartidoParlamentarNaData |-> "PT",
       confidence |-> 7, Data |-> 2, text |-> {<<"b", ".">>}] }

FiltrosAF ==
    [labels : {{}, {<<>>}, {<<"ironia">>}},
     oradores : {{}, {<<"Ana">>}},
     partidos : {{}, {<<"PT", "PSDB">>}},
     conf_min : {{}, {0}, {7}},
     data_ini : {{}, {2}},
     data_fim : {{}, {2}, {3}},
     q : {{}, {<<>>}, {<<"B">>}, {<<"a", ".">>}, {<<"(">>}}]

InitAF ==
    /\ dfSpans \in UNION {[1..k -> LinhasAF] : k \in 0..MaxRowsAF}
    /\ dfAntes = dfSpans
    /\ filtroDict \in FiltrosAF
    /\ dfOut = <<>>
    /\ pcAF = "call"
    /\ IdleTam
    /\ IdleAmostra
    /\ IdleBatch
    /\ IdleParse
    /\ IdleLoad
    /\ IdleFiltro
    /\ IdleMain
    /\ IdleJsonl
    /\ IdleOrc
    /\ IdleHl
    /\ IdleCopia
    /\ IdleLimpar
    /\ IdleIds

\* apply_filters(df, f): the copy of df is narrowed by each applicable filter
\* and returned; compiling q can raise.
ApplyFilters ==
    /\ pcAF = "call"
    /\ IF Truthy(filtroDict.q) /\ ReError(Val(filtroDict.q))
       THEN /\ pcAF' = "raised"
            /\ dfOut' = dfOut
       ELSE /\ pcAF' = "returned"
            /\ dfOut' = SelectSeq(dfSpans, LAMBDA row : PassaFiltros(row, filtroDict))
    /\ UNCHANGED <<dfSpans, dfAntes, filtroDict, varsTam, varsAmostra, varsBatch, varsParse, varsLoad, varsFiltro, varsMain, varsJsonl, varsOrc, varsHl, varsCopia, varsLimpar, varsIds>>

NextAF == ApplyFilters

SpecAF == InitAF /\ [][NextAF]_vars

\* The predicates of the filter dict as the contract words them: membership
\* in the given lists, confidence bound, date range, and q occurring in the
\* text as a substring regardless of case, a missing text never matching.
SatisfazPredicados(row, f) ==
    /\ Truthy(f.labels) => \E i \in 1..Len(Val(f.labels)) : Val(f.labels)[i] = row.label
    /\ Truthy(f.oradores) =>
          \E i \in 1..Len(Val(f.oradores)) : Val(f.oradores)[i] = row.NomeParlamentar
    /\ Truthy(f.partidos) =>
          \E i \in 1..Len(Val(f.partidos)) :
              Val(f.partidos)[i] = row.SiglaPartidoParlamentarNaData
    /\ f.conf_min # {} => row.confidence >= Val(f.conf_min)
    /\ (f.data_ini # {} /\ f.data_fim # {}) =>
          (Val(f.data_ini) <= row.Data /\ row.Data <= Val(f.data_fim))
    /\ Truthy(f.q) => (row.text # {} /\ ReSearchLiteral(Val(f.q), Val(row.text)))

\* C17: apply_filters returns exactly the rows of its input that satisfy
\* every predicate supplied in the filter dict, in their original order, and
\* leaves its input unchanged.
C17_FiltrosExatos ==
    pcAF # "call" =>
        /\ pcAF = "returned"
        /\ dfOut = SelectSeq(dfAntes, LAMBDA row : SatisfazPredicados(row, filtroDict))
        /\ dfSpans = dfAntes

\* ------------------------------------------------------------------------
\* utils.py: highlight_spans
\* The result "".join(parts) is kept as the sequence of its parts: a part is
\* either escaped text or a <mark> element with its label and its escaped
\* snippet; escaped text is a sequence of escaped characters.
\* ------------------------------------------------------------------------
\* Longest text highlighted.
MaxTextoHl == 3

\* html.escape of one character
EscapeChar(c) == IF c = "<" THEN "&lt;" ELSE IF c = "&" THEN "&amp;" ELSE c
Escape(s) == [i \in 1..Len(s) |-> EscapeChar(s[i])]

ParteTexto(s) == [tipo |-> "texto", label |-> "", conteudo |-> Escape(s)]
ParteMark(label, s) == [tipo |-> "mark", label |-> label, conteudo |-> Escape(s)]

TextosHl == UNION {[1..k -> {"a", "b", "<"}] : k \in 0..MaxTextoHl}
SpansHl(text) ==
    LET um == {[start_char |-> s, end_char |-> e, label |-> l] :
                  s \in 0..Len(text), e \in 0..Len(text), l \in {"x", "y"}}
        dentro == {sp \in um : sp.start_char <= sp.end_char}
    IN  UNION {[1..k -> dentro] : k \in 0..2}

\* spans.sort_values("start_char"): a reordering of the rows with ascending
\* start_char; the order of rows with equal keys is not fixed.
SortedBy(spans, sorted) ==
    /\ Len(sorted) = Len(spans)
    /\ \E p \in [1..Len(spans) -> 1..Len(spans)] :
          /\ \A i, j \in 1..Len(spans) : i # j => p[i] # p[j]
          /\ \A i \in 1..Len(spans) : sorted[i] = spans[p[i]]
    /\ \A i \in 1..(Len(sorted) - 1) : sorted[i].start_char <= sorted[i + 1].start_char

InitHl ==
    /\ \E text \in TextosHl : \E spans \in SpansHl(text) :
          hl = [pc |-> "call", text |-> text, spans |-> spans, sorted |-> <<>>, i |-> 0,
                last |-> 0, parts |-> <<>>]
    /\ IdleTam
    /\ IdleAmostra
    /\ IdleBatch
    /\ IdleParse
    /\ IdleLoad
    /\ IdleFiltro
    /\ IdleMain
    /\ IdleJsonl
    /\ IdleOrc
    /\ IdleAF
    /\ IdleCopia
    /\ IdleLimpar
    /\ IdleIds

\* if spans is None or spans.empty: return html.escape(text)
HlEmpty ==
    /\ hl.pc = "call"
    /\ hl.spans = <<>>
    /\ hl' = [hl EXCEPT !.pc = "done", !.parts = <<ParteTexto(hl.text)>>]
    /\ UNCHANGED <<varsTam, varsAmostra, varsBatch, varsParse, varsLoad, varsFiltro, varsMain, varsJsonl, varsOrc, varsAF, varsCopia, varsLimpar, varsIds>>

\* spans = spans.sort_values("start_char"); parts = []; last = 0
HlSort ==
    /\ hl.pc = "call"
    /\ hl.spans # <<>>
    /\ \E sorted \in [1..Len(hl.spans) -> Range(hl.spans)] :
          /\ SortedBy(hl.spans, sorted)
          /\ hl' = [hl EXCEPT !.pc = "loop", !.sorted = sorted, !.i = 0, !.last = 0,
                              !.parts = <<>>]
    /\ UNCHANGED <<varsTam, varsAmostra, varsBatch, varsParse, varsLoad, varsFiltro, varsMain, varsJsonl, varsOrc, varsAF, varsCopia, varsLimpar, varsIds>>

\* One iteration of the loop over spans.iterrows().
HlSpan ==
    /\ hl.pc = "loop"
    /\ hl.i < Len(hl.sorted)
    /\ LET row == hl.sorted[hl.i + 1]
           start == row.start_char
           end == row.end_char
       IN  hl' = [hl EXCEPT
                     !.parts = @ \o <<ParteTexto(Slice(hl.text, hl.last, start)),
                                      ParteMark(row.label, Slice(hl.text, start, end))>>,
                     !.last = end,
                     !.i = @ + 1]
    /\ UNCHANGED <<varsTam, varsAmostra, varsBatch, varsParse, varsLoad, varsFiltro, varsMain, varsJsonl, varsOrc, varsAF, varsCopia, varsLimpar, varsIds>>

\* parts.append(html.escape(text[last:])); return "".join(parts)
HlReturn ==
    /\ hl.pc = "loop"
    /\ hl.i = Len(hl.sorted)
    /\ hl' = [hl EXCEPT !.pc = "done",
                 !.parts = Append(@, ParteTexto(Slice(hl.text, hl.last, Len(hl.text))))]
    /\ UNCHANGED <<varsTam, varsAmostra, varsBatch, varsParse, varsLoad, varsFiltro, varsMain, varsJsonl, varsOrc, varsAF, varsCopia, varsLimpar, varsIds>>

NextHl ==
    \/ HlEmpty
    \/ HlSort
    \/ HlSpan
    \/ HlReturn

SpecHl == InitHl /\ [][NextHl]_vars

\* The escaped text emitted outside the markers, in order.
RECURSIVE ForaDosMarks(_)
ForaDosMarks(parts) ==
    IF parts = <<>> THEN <<>>
    ELSE (IF Head(parts).tipo = "texto" THEN Head(parts).conteudo ELSE <<>>)
         \o ForaDosMarks(Tail(parts))

\* The characters of the text that no span covers, in order.
RECURSIVE NaoCoberto(_, _, _)
NaoCoberto(text, spans, i) ==
    IF i > Len(text) THEN <<>>
    ELSE (IF \E k \in 1..Len(spans) :
                 spans[k].start_char < i /\ i <= spans[k].end_char
          THEN <<>> ELSE <<text[i]>>)
         \o NaoCoberto(text, spans, i + 1)

\* C18: for every text and in-bounds spans, overlapping or not, the markers
\* come in ascending start_char order, each wraps the escaped slice of its
\* span under the span's label, and the text emitted outside the markers is
\* exactly the escaped text that no span covers, in its original order.
C18_RealceCompleto ==
    hl.pc = "done" =>
        LET marks == SelectSeq(hl.parts, LAMBDA p : p.tipo = "mark")
        IN  /\ hl.spans # <<>> =>
                  /\ Len(marks) = Len(hl.spans)
                  /\ SortedBy(hl.spans, hl.sorted)
                  /\ \A k \in 1..Len(marks) :
                        /\ marks[k].label = hl.sorted[k].label
                        /\ marks[k].conteudo =
                              Escape(SubSeq(hl.text, hl.sorted[k].start_char + 1,
                                            hl.sorted[k].end_char))
            /\ ForaDosMarks(hl.parts) = Escape(NaoCoberto(hl.text, hl.spans, 1))

\* ------------------------------------------------------------------------
\* amostrar_discursos.py: copiar_amostra_com_join
\* fonte is the table Discursos (its rows, named by CodigoPronunciamento, in
\* table order); destino is the committed content of DiscursosAmostra in
\* DEST_DB, {} when there is no such table and {rows} otherwise; pendente
\* holds the rows written by the open transaction of conn_disc. The sqlite3
\* module opens a transaction implicitly before an INSERT and not before a
\* CREATE TABLE, and SQLite refuses to DETACH inside a transaction.
\* ------------------------------------------------------------------------
BATCH_SIZE == 800

\* ids[i : i + BATCH_SIZE]
Lote(ids, i) == SubSeq(ids, i + 1, Min(i + BATCH_SIZE, Len(ids)))

\* SELECT d.* FROM Discursos d ... WHERE d.CodigoPronunciamento IN (lote)
SelectIn(tabela, lote) == SelectSeq(tabela, LAMBDA cod : cod \in Range(lote))

\* Numbers of selected ids in the runs considered.
NumIdsOpts == {1, 2, 799, 800, 801, 1599, 1600, 1601}

InitCopia ==
    /\ \E n \in NumIdsOpts : \E extra \in {0, 2} :
          /\ fonte = [k \in 1..(n + extra) |-> k]
          /\ copia = [pc |-> "start", ids |-> [k \in 1..n |-> k + extra \div 2], i |-> 0,
                      primeiro_batch |-> TRUE, em_transacao |-> FALSE, erro |-> ""]
    /\ destino \in {{}, {<<1>>}}
    /\ pendente = <<>>
    /\ IdleTam
    /\ IdleAmostra
    /\ IdleBatch
    /\ IdleParse
    /\ IdleLoad
    /\ IdleFiltro
    /\ IdleMain
    /\ IdleJsonl
    /\ IdleOrc
    /\ IdleAF
    /\ IdleHl
    /\ IdleLimpar
    /\ IdleIds

\* preparar_destino: DROP TABLE IF EXISTS; commit. primeiro_batch = True.
CopiaPreparar ==
    /\ copia.pc = "start"
    /\ destino' = {}
    /\ copia' = [copia EXCEPT !.pc = "loop"]
    /\ UNCHANGED <<fonte, pendente, varsTam, varsAmostra, varsBatch, varsParse, varsLoad, varsFiltro, varsMain, varsJsonl, varsOrc, varsAF, varsHl, varsLimpar, varsIds>>

\* Next batch: the two ATTACH DATABASE statements.
CopiaAttach ==
    /\ copia.pc = "loop"
    /\ copia.i < Len(copia.ids)
    /\ copia' = [copia EXCEPT !.pc = "batch"]
    /\ UNCHANGED <<fonte, destino, pendente, varsTam, varsAmostra, varsBatch, varsParse, varsLoad, varsFiltro, varsMain, varsJsonl, varsOrc, varsAF, varsHl, varsLimpar, varsIds>>

\* First batch: CREATE TABLE dest_db.DiscursosAmostra AS SELECT ..., which
\* runs outside any transaction and is durable at once.
CopiaCreateTable ==
    /\ copia.pc = "batch"
    /\ copia.primeiro_batch
    /\ destino' = {SelectIn(fonte, Lote(copia.ids, copia.i))}
    /\ copia' = [copia EXCEPT !.pc = "detach", !.primeiro_batch = FALSE]
    /\ UNCHANGED <<fonte, pendente, varsTam, varsAmostra, varsBatch, varsParse, varsLoad, varsFiltro, varsMain, varsJsonl, varsOrc, varsAF, varsHl, varsLimpar, varsIds>>

\* Later batches: INSERT INTO dest_db.DiscursosAmostra SELECT ..., inside the
\* transaction the module opens for it.
CopiaInsert ==
    /\ copia.pc = "batch"
    /\ ~copia.primeiro_batch
    /\ pendente' = pendente \o SelectIn(fonte, Lote(copia.ids, copia.i))
    /\ copia' = [copia EXCEPT !.pc = "detach", !.em_transacao = TRUE]
    /\ UNCHANGED <<fonte, destino, varsTam, varsAmostra, varsBatch, varsParse, varsLoad, varsFiltro, varsMain, varsJsonl, varsOrc, varsAF, varsHl, varsLimpar, varsIds>>

\* DETACH DATABASE sen_db: raises OperationalError (database sen_db is
\* locked) inside a transaction; the exception leaves the function, main
\* closes the connections and the open transaction is rolled back.
CopiaDetach ==
    /\ copia.pc = "detach"
    /\ IF copia.em_transacao
       THEN /\ copia' = [copia EXCEPT !.pc = "aborted", !.erro = "OperationalError",
                                      !.em_transacao = FALSE]
            /\ pendente' = <<>>
       ELSE /\ copia' = [copia EXCEPT !.pc = "commit"]
            /\ pendente' = pendente
    /\ UNCHANGED <<fonte, destino, varsTam, varsAmostra, varsBatch, varsParse, varsLoad, varsFiltro, varsMain, varsJsonl, varsOrc, varsAF, varsHl, varsLimpar, varsIds>>

\* conn_disc.commit(), and the loop variable advances.
CopiaCommit ==
    /\ copia.pc = "commit"
    /\ destino' = IF pendente = <<>> THEN destino
                  ELSE {(CHOOSE t \in destino : TRUE) \o pendente}
    /\ pendente' = <<>>
    /\ copia' = [copia EXCEPT !.pc = "loop", !.i = @ + BATCH_SIZE, !.em_transacao = FALSE]
    /\ UNCHANGED <<fonte, varsTam, varsAmostra, varsBatch, varsParse, varsLoad, varsFiltro, varsMain, varsJsonl, varsOrc, varsAF, varsHl, varsLimpar, varsIds>>

\* The loop is over: print("[OK] Tabela ... criada").
CopiaFim ==
    /\ copia.pc = "loop"
    /\ copia.i >= Len(copia.ids)
    /\ copia' = [copia EXCEPT !.pc = "done"]
    /\ UNCHANGED <<fonte, destino, pendente, varsTam, varsAmostra, varsBatch, varsParse, varsLoad, varsFiltro, varsMain, varsJsonl, varsOrc, varsAF, varsHl, varsLimpar, varsIds>>

\* The process dies: what was not committed is lost.
CopiaCrash ==
    /\ copia.pc \in {"start", "loop", "batch", "detach", "commit"}
    /\ pendente' = <<>>
    /\ copia' = [copia EXCEPT !.pc = "crashed", !.em_transacao = FALSE]
    /\ UNCHANGED <<fonte, destino, varsTam, varsAmostra, varsBatch, varsParse, varsLoad, varsFiltro, varsMain, varsJsonl, varsOrc, varsAF, varsHl, varsLimpar, varsIds>>

NextCopia ==
    \/ CopiaPreparar
    \/ CopiaAttach
    \/ CopiaCreateTable
    \/ CopiaInsert
    \/ CopiaDetach
    \/ CopiaCommit
    \/ CopiaFim
    \/ CopiaCrash

SpecCopia == InitCopia /\ [][NextCopia]_vars

\* The rows of the first j batches, in the order they are written.
RECURSIVE LinhasDosLotes(_, _, _)
LinhasDosLotes(tabela, ids, j) ==
    IF j = 0 THEN <<>>
    ELSE LinhasDosLotes(tabela, ids, j - 1)
         \o SelectSeq(tabela,
                      LAMBDA cod : \E k \in ((j - 1) * 800 + 1)..Min(j * 800, Len(ids)) :
                                       ids[k] = cod)

NumLotes(ids) == (Len(ids) + 799) \div 800

\* C20: the ids are copied in consecutive batches of at most 800 with a
\* commit after each; whenever a batch has been committed, and after a crash
\* or an abort, the derived table holds exactly the rows of a prefix of the
\* batches; the call completes every batch and then the derived table holds
\* exactly the source rows whose id was selected; Discursos is unchanged.
C20_LotesComitados ==
    copia.pc # "idle" =>
        /\ fonte = [k \in 1..Len(fonte) |-> k]
        /\ copia.pc = "loop" =>
              destino = IF copia.i = 0 THEN {}
                        ELSE {LinhasDosLotes(fonte, copia.ids, copia.i \div 800)}
        /\ copia.pc \in {"crashed", "aborted"} =>
              (destino \in {{}, {<<1>>}}
               \/ \E j \in 1..NumLotes(copia.ids) :
                     destino = {LinhasDosLotes(fonte, copia.ids, j)})
        /\ copia.pc # "aborted"
        /\ copia.pc = "done" =>
              destino = {SelectSeq(fonte, LAMBDA cod : \E k \in 1..Len(copia.ids) :
                                                          copia.ids[k] = cod)}

\* ------------------------------------------------------------------------
\* src/limpar_textos.py: limpar_texto_anexos, limpar_coluna_sqlite
\* A table is the sequence of its rows in the order of ORDER BY id_col ASC
\* (NULL ids first). A row is [id, txt, outro]: id is {} for NULL and {n}
\* otherwise, txt is {} for NULL and {t} for the text t, outro stands for
\* the other columns. banco is the committed content of the file, sessao is
\* what the connection sees (banco plus the updates of its open
\* transaction), banco0 is the file at the call. A text is a sequence of
\* characters in which the element "SEGUE" stands for one whole marker
\* phrase (SEGUE NA INTEGRA PRONUNCIAMENTO, DOCUMENTO ENCAMINHADO PELO, ...).
\* ------------------------------------------------------------------------
MaxRowsLimpar == 3

Aspas == {"\""}
FRASE == "SEGUE"

\* REGEX_EXCLUIR_ANEXOS matches at position i: four asterisks, or an optional
\* quotation mark, optional blanks and a marker phrase.
MarcadorEm(t, i) ==
    \/ i + 3 <= Len(t) /\ \A k \in i..(i + 3) : t[k] = "*"
    \/ \E j \in i..Len(t) :
          /\ t[j] = FRASE
          /\ \/ \A k \in i..(j - 1) : t[k] = " "
             \/ j > i /\ t[i] \in Aspas /\ \A k \in (i + 1)..(j - 1) : t[k] = " "

\* REGEX_EXCLUIR_ANEXOS.sub("", texto): the leftmost match runs to the end of
\* the text (.* with DOTALL) and is removed.
RegexExcluirAnexosSub(t) ==
    IF \E i \in 1..Len(t) : MarcadorEm(t, i)
    THEN SubSeq(t, 1, (CHOOSE i \in 1..Len(t) :
                           MarcadorEm(t, i) /\ \A k \in 1..(i - 1) : ~MarcadorEm(t, k)) - 1)
    ELSE t

\* limpar_texto_anexos(texto): "" for a value that is not a str
LimparTextoAnexos(txt) ==
    IF txt = {} THEN <<>> ELSE Strip(RegexExcluirAnexosSub(CHOOSE t \in txt : TRUE))

\* txt or ""
TxtOuVazio(txt) == IF txt = {} THEN <<>> ELSE CHOOSE t \in txt : TRUE

\* The rows of SELECT ... FROM table [WHERE where] ORDER BY id_col ASC, as
\* indices into the table. where is {} for None and {v} for "outro = v".
RECURSIVE Selecionadas(_, _, _)
Selecionadas(tab, where, n) ==
    IF n = 0 THEN <<>>
    ELSE Selecionadas(tab, where, n - 1)
         \o (IF where = {} \/ tab[n].outro \in where THEN <<n>> ELSE <<>>)

\* _count_rows
CountRows(tab, where) == Len(Selecionadas(tab, where, Len(tab)))

\* cur.fetchmany(batch_size) after `lidos` rows have been fetched
Fetchmany(tab, where, lidos, batch_size) ==
    LET sel == Selecionadas(tab, where, Len(tab))
    IN  SubSeq(sel, lidos + 1, Min(lidos + batch_size, Len(sel)))

\* for _id, txt in rows: the list `updates` of (novo, _id)
RECURSIVE Updates(_, _)
Updates(tab, rows) ==
    IF rows = <<>> THEN <<>>
    ELSE LET txt == tab[Head(rows)].txt
             novo == LimparTextoAnexos(txt)
         IN  (IF TxtOuVazio(txt) # novo
              THEN <<[novo |-> novo, id |-> tab[Head(rows)].id]>> ELSE <<>>)
             \o Updates(tab, Tail(rows))

\* UPDATE table SET text_col = ? WHERE id_col = ?, for every pair of
\* `updates`: a NULL parameter is equal to no id.
Executemany(tab, updates) ==
    [i \in 1..Len(tab) |->
        IF \E u \in 1..Len(updates) : updates[u].id # {} /\ updates[u].id = tab[i].id
        THEN LET last == CHOOSE u \in 1..Len(updates) :
                            /\ updates[u].id # {} /\ updates[u].id = tab[i].id
                            /\ \A v \in (u + 1)..Len(updates) : updates[v].id # tab[i].id
             IN  [tab[i] EXCEPT !.txt = {updates[last].novo}]
        ELSE tab[i]]

\* The texts of a row in the runs considered: NULL, clean, changed by strip
\* alone, cut at the asterisks, cut at a quoted marker phrase.
TextosLimpar ==
    {{}, {<<"a">>}, {<<" ", "a">>}, {<<"a", "*", "*", "*", "*", "b">>},
     {<<"a", "\"", " ", "SEGUE", "b">>}}

InitLimpar ==
    /\ \E n \in 1..MaxRowsLimpar : \E nulos \in {0, 1} :
          \E txts \in [1..n -> TextosLimpar] :
             banco = [i \in 1..n |-> [id |-> IF i <= nulos THEN {} ELSE {i},
                                      txt |-> txts[i], outro |-> i % 2]]
    /\ banco0 = banco
    /\ sessao = banco
    /\ \E bs \in {1, 2} : \E ce \in {1, 2, 3} : \E w \in {{}, {1}} :
          limpar = [pc |-> "start", batch_size |-> bs, commit_every |-> ce, where |-> w,
                    lidos |-> 0, rows |-> <<>>, updates |-> <<>>, total |-> 0,
                    verificadas |-> 0, atualizadas |-> 0, inalteradas |-> 0,
                    pendentes |-> 0, lotes |-> 0, ultimo_commit |-> 0, resultado |-> {}]
    /\ IdleTam
    /\ IdleAmostra
    /\ IdleBatch
    /\ IdleParse
    /\ IdleLoad
    /\ IdleFiltro
    /\ IdleMain
    /\ IdleJsonl
    /\ IdleOrc
    /\ IdleAF
    /\ IdleHl
    /\ IdleCopia
    /\ IdleIds

\* sqlite3.connect, the PRAGMAs, total = _count_rows(...), the counters at 0
LimparInicio ==
    /\ limpar.pc = "start"
    /\ limpar' = [limpar EXCEPT !.pc = "fetch",
                                !.total = CountRows(sessao, limpar.where)]
    /\ UNCHANGED <<banco, banco0, sessao, varsTam, varsAmostra, varsBatch, varsParse, varsLoad, varsFiltro, varsMain, varsJsonl, varsOrc, varsAF, varsHl, varsCopia, varsIds>>

\* _yield_batches: rows = cur.fetchmany(batch_size); an empty list ends the
\* generator and the for loop.
LimparFetchmany ==
    /\ limpar.pc = "fetch"
    /\ LET rows == Fetchmany(sessao, limpar.where, limpar.lidos, limpar.batch_size)
       IN  limpar' = [limpar EXCEPT !.pc = IF rows = <<>> THEN "fim" ELSE "lote",
                                    !.rows = rows, !.lidos = @ + Len(rows)]
    /\ UNCHANGED <<banco, banco0, sessao, varsTam, varsAmostra, varsBatch, varsParse, varsLoad, varsFiltro, varsMain, varsJsonl, varsOrc, varsAF, varsHl, varsCopia, varsIds>>

\* The inner for loop over the rows of the batch.
LimparLote ==
    /\ limpar.pc = "lote"
    /\ LET updates == Updates(sessao, limpar.rows)
       IN  limpar' = [limpar EXCEPT !.pc = "executemany", !.updates = updates,
                                    !.verificadas = @ + Len(limpar.rows),
                                    !.inalteradas = @ + Len(limpar.rows) - Len(updates)]
    /\ UNCHANGED <<banco, banco0, sessao, varsTam, varsAmostra, varsBatch, varsParse, varsLoad, varsFiltro, varsMain, varsJsonl, varsOrc, varsAF, varsHl, varsCopia, varsIds>>

\* if updates: conn.executemany(UPDATE ...); atualizadas and pendentes grow
\* by len(updates). The sqlite3 module opens a transaction before the UPDATE.
LimparExecutemany ==
    /\ limpar.pc = "executemany"
    /\ sessao' = Executemany(sessao, limpar.updates)
    /\ limpar' = [limpar EXCEPT !.pc = "commit",
                                !.atualizadas = @ + Len(limpar.updates),
                                !.pendentes = @ + Len(limpar.updates)]
    /\ UNCHANGED <<banco, banco0, varsTam, varsAmostra, varsBatch, varsParse, varsLoad, varsFiltro, varsMain, varsJsonl, varsOrc, varsAF, varsHl, varsCopia, varsIds>>

\* Variant of the commit test that waits until pendentes exceeds commit_every.
LimparCommitTardio ==
    /\ limpar.pc = "commit"
    /\ IF limpar.pendentes > limpar.commit_every
       THEN /\ banco' = sessao
            /\ limpar' = [limpar EXCEPT !.pc = "fetch", !.pendentes = 0, !.lotes = @ + 1,
                                        !.ultimo_commit = limpar.lidos]
       ELSE /\ banco' = banco
            /\ limpar' = [limpar EXCEPT !.pc = "fetch", !.lotes = @ + 1]
    /\ UNCHANGED <<banco0, sessao, varsTam, varsAmostra, varsBatch, varsParse, varsLoad, varsFiltro, varsMain, varsJsonl, varsOrc, varsAF, varsHl, varsCopia, varsIds>>

\* if pendentes >= commit_every: conn.commit(); pendentes = 0. The batch is
\* done (lotes counts them; ultimo_commit is the number of rows read when
\* the last commit was issued).
LimparCommit ==
    /\ limpar.pc = "commit"
    /\ IF limpar.pendentes >= limpar.commit_every
       THEN /\ banco' = sessao
            /\ limpar' = [limpar EXCEPT !.pc = "fetch", !.pendentes = 0, !.lotes = @ + 1,
                                        !.ultimo_commit = limpar.lidos]
       ELSE /\ banco' = banco
            /\ limpar' = [limpar EXCEPT !.pc = "fetch", !.lotes = @ + 1]
    /\ UNCHANGED <<banco0, sessao, varsTam, varsAmostra, varsBatch, varsParse, varsLoad, varsFiltro, varsMain, varsJsonl, varsOrc, varsAF, varsHl, varsCopia, varsIds>>

\* After the loop: if pendentes: conn.commit()
LimparCommitFinal ==
    /\ limpar.pc = "fim"
    /\ IF limpar.pendentes # 0
       THEN /\ banco' = sessao
            /\ limpar' = [limpar EXCEPT !.pc = "return", !.ultimo_commit = limpar.lidos]
       ELSE /\ banco' = banco
            /\ limpar' = [limpar EXCEPT !.pc = "return"]
    /\ UNCHANGED <<banco0, sessao, varsTam, varsAmostra, varsBatch, varsParse, varsLoad, varsFiltro, varsMain, varsJsonl, varsOrc, varsAF, varsHl, varsCopia, varsIds>>

\* return {...}; finally: conn.close()
LimparReturn ==
    /\ limpar.pc = "return"
    /\ limpar' = [limpar EXCEPT !.pc = "returned",
                     !.resultado = {[linhas_totais_filtradas |-> limpar.total,
                                     verificadas |-> limpar.verificadas,
                                     atualizadas |-> limpar.atualizadas,
                                     inalteradas |-> limpar.inalteradas]}]
    /\ sessao' = banco
    /\ UNCHANGED <<banco, banco0, varsTam, varsAmostra, varsBatch, varsParse, varsLoad, varsFiltro, varsMain, varsJsonl, varsOrc, varsAF, varsHl, varsCopia, varsIds>>

\* The run is interrupted (an exception such as KeyboardInterrupt, or the
\* process dies, at any point, also part way through executemany):
\* finally: conn.close() discards the open transaction.
LimparInterrompido ==
    /\ limpar.pc \in {"start", "fetch", "lote", "executemany", "commit", "fim", "return"}
    /\ limpar' = [limpar EXCEPT !.pc = "interrupted"]
    /\ sessao' = banco
    /\ UNCHANGED <<banco, banco0, varsTam, varsAmostra, varsBatch, varsParse, varsLoad, varsFiltro, varsMain, varsJsonl, varsOrc, varsAF, varsHl, varsCopia, varsIds>>

NextLimpar ==
    \/ LimparInicio
    \/ LimparFetchmany
    \/ LimparLote
    \/ LimparExecutemany
    \/ LimparCommit
    \/ LimparCommitFinal
    \/ LimparReturn
    \/ LimparInterrompido

SpecLimpar == InitLimpar /\ [][NextLimpar]_vars

\* The updates applied by the connection and not committed.
NaoComitadas == {i \in 1..Len(sessao) : sessao[i] # banco[i]}

\* The table after the updates of the first k rows read have been applied.
AposLinhas(k) ==
    LET sel == Selecionadas(banco0, limpar.where, Len(banco0))
    IN  Executemany(banco0, Updates(banco0, SubSeq(sel, 1, k)))

\* C21: after each read batch has been processed the pending count, and the
\* number of applied but uncommitted updates, is below commit_every; the
\* pending count never exceeds commit_every + batch_size - 1; on normal
\* return every applied update has been committed; at every moment, and so
\* after an interruption, the file holds exactly the updates applied before
\* the last commit.
C21_CommitsLimitados ==
    limpar.pc # "idle" =>
        /\ Cardinality(NaoComitadas) <= limpar.pendentes
        /\ limpar.pendentes <= limpar.commit_every + limpar.batch_size - 1
        /\ limpar.pc = "fetch" => limpar.pendentes < limpar.commit_every
        /\ limpar.pc \in {"return", "returned"} =>
              /\ NaoComitadas = {}
              /\ banco = AposLinhas(limpar.lidos)
        /\ banco = AposLinhas(limpar.ultimo_commit)
        /\ limpar.pc = "interrupted" => sessao = AposLinhas(limpar.ultimo_commit)

\* A run that committed some updates, applied others and was interrupted
\* before committing them.
C21_Witness ==
    /\ limpar.pc = "interrupted"
    /\ banco # banco0
    /\ limpar.pendentes > 0
    /\ limpar.lotes >= 2

\* The rows that `where` selects.
Selecionada(i) == limpar.where = {} \/ banco0[i].outro \in limpar.where

\* Cleaning changes the text of row i.
LimpezaAltera(i) == TxtOuVazio(banco0[i].txt) # LimparTextoAnexos(banco0[i].txt)

\* C22: at the end of every batch and at return verificadas = atualizadas +
\* inalteradas and verificadas is the number of rows read; at return a row
\* is updated if and only if it was read and cleaning changes its text (a
\* NULL text is left NULL), its new text is the cleaned one, nothing else
\* changed, and the returned counts are the numbers of rows read, updated
\* and left alone.
C22_ContagensExatas ==
    /\ limpar.pc \in {"commit", "fetch", "fim", "return", "returned"} =>
          /\ limpar.verificadas = limpar.atualizadas + limpar.inalteradas
          /\ limpar.verificadas = limpar.lidos
    /\ limpar.pc = "returned" =>
          /\ Len(banco) = Len(banco0)
          /\ \A i \in 1..Len(banco0) :
                /\ banco[i].id = banco0[i].id
                /\ banco[i].outro = banco0[i].outro
                /\ banco[i].txt = IF Selecionada(i) /\ LimpezaAltera(i)
                                  THEN {LimparTextoAnexos(banco0[i].txt)}
                                  ELSE banco0[i].txt
          /\ LET lidas == {i \in 1..Len(banco0) : Selecionada(i)}
                 mudadas == {i \in 1..Len(banco0) : banco[i] # banco0[i]}
             IN  limpar.resultado =
                    {[linhas_totais_filtradas |-> Cardinality(lidas),
                      verificadas |-> Cardinality(lidas),
                      atualizadas |-> Cardinality(mudadas),
                      inalteradas |-> Cardinality(lidas \ mudadas)]}

\* ------------------------------------------------------------------------
\* The correlation id from create_jsonl (batch_figuras.py) to load_spans
\* (utils.py): corr holds the CodigoPronunciamento of a row, the custom_id
\* create_jsonl writes for it and the codigo load_spans reads back.
\* ------------------------------------------------------------------------
\* Largest absolute value of a CodigoPronunciamento in the runs considered.
MaxCodigo == 60

\* str(n) for n >= 0: decimal digits, no leading zeros
RECURSIVE DigitsOf(_)
DigitsOf(n) ==
    IF n < 10 THEN <<Digits[n + 1]>>
    ELSE DigitsOf(n \div 10) \o <<Digits[(n % 10) + 1]>>

\* The conversion of an int in an f-string: str(n)
StrOfInt(n) == IF n < 0 THEN <<"-">> \o DigitsOf(0 - n) ELSE DigitsOf(n)

\* f"disc-{codigo}"
CustomIdDe(codigo) == <<"d", "i", "s", "c", "-">> \o StrOfInt(codigo)

InitIds ==
    /\ \E c \in (0 - MaxCodigo)..MaxCodigo :
          corr = [pc |-> "row", codigo |-> c, custom_id |-> <<>>, lido |-> {}]
    /\ IdleTam
    /\ IdleAmostra
    /\ IdleBatch
    /\ IdleParse
    /\ IdleLoad
    /\ IdleFiltro
    /\ IdleMain
    /\ IdleJsonl
    /\ IdleOrc
    /\ IdleAF
    /\ IdleHl
    /\ IdleCopia
    /\ IdleLimpar

\* create_jsonl: the request line of the row gets custom_id = f"disc-{codigo}";
\* the batch service returns the custom_id with the response.
IdsCreate ==
    /\ corr.pc = "row"
    /\ corr' = [corr EXCEPT !.pc = "sent", !.custom_id = CustomIdDe(corr.codigo)]
    /\ UNCHANGED <<varsTam, varsAmostra, varsBatch, varsParse, varsLoad, varsFiltro, varsMain, varsJsonl, varsOrc, varsAF, varsHl, varsCopia, varsLimpar>>

\* load_spans: codigo = int(custom_id.split("-")[-1]), None on an exception
IdsLoad ==
    /\ corr.pc = "sent"
    /\ corr' = [corr EXCEPT !.pc = "loaded", !.lido = CodigoDe(CidStr(corr.custom_id)).val]
    /\ UNCHANGED <<varsTam, varsAmostra, varsBatch, varsParse, varsLoad, varsFiltro, varsMain, varsJsonl, varsOrc, varsAF, varsHl, varsCopia, varsLimpar>>

NextIds == IdsCreate \/ IdsLoad

SpecIds == InitIds /\ [][NextIds]_vars

\* C24: the codigo load_spans decodes from the custom_id create_jsonl built
\* for the integer c is c itself.
C24_IdaEVolta == corr.pc = "loaded" => corr.lido = {corr.codigo}

\* ------------------------------------------------------------------------
\* The pipeline as a whole: each run starts in one of the entry points and
\* takes the steps of that entry point.
\* ------------------------------------------------------------------------
Init == InitTam \/ InitAmostra \/ InitBatch \/ InitParse \/ InitLoad \/ InitFiltro \/ InitMain \/ InitJsonl \/ InitOrc \/ InitAF \/ InitHl \/ InitCopia \/ InitLimpar \/ InitIds

Next == NextTam \/ NextAmostra \/ NextBatch \/ NextParse \/ NextLoad \/ NextFiltro \/ NextMain \/ NextJsonl \/ NextOrc \/ NextAF \/ NextHl \/ NextCopia \/ NextLimpar \/ NextIds

Spec == Init /\ [][Next]_vars

=============================================================================
